---- MODULE Spec2Model ----
(***************************************************************************)
(* Model of the automated conjecture factory: the conjecture testers of    *)
(* src/core (polynomial, linear recurrence, rational function) and the     *)
(* orchestrator of src/main_analyzer.py.                                   *)
(*                                                                         *)
(* Numerics.  The testers fit with floating point (numpy / scipy) and then *)
(* verify with exact arithmetic.  The fits are modelled by the exact       *)
(* rational solution of the same linear problem (least squares by the      *)
(* normal equations, square systems by elimination); the gates of the code *)
(* (1e-9 to the nearest integer, 1e-5 on the residual) are then evaluated  *)
(* on these rationals.  A rational is a pair <<num, den>> with den > 0 in  *)
(* lowest terms.                                                           *)
(*                                                                         *)
(* Magnitude.  A term too large for numpy's native integer types (2^64 or  *)
(* more) cannot be written as a TLC integer.  An input therefore carries   *)
(* `big`: the index of one such term (0: none); terms[big] is then only a  *)
(* placeholder, never read as a number.                                    *)
(***************************************************************************)
EXTENDS Integers, Sequences, FiniteSets, Bags, TLC

\* ------------------------------------------------------------------------
\* Bounds of the model
\* ------------------------------------------------------------------------
MaxLen == 4

\* ------------------------------------------------------------------------
\* Program constants
\* ------------------------------------------------------------------------
max_degree == 10
max_depth == 10
\* verification_ratio = 0.8 = RatioNum / RatioDen
RatioNum == 4
RatioDen == 5
\* the rounding tolerance 1e-9 is 1 / IntTol
IntTol == 1000000000
\* the residual threshold 1e-5 is 1 / ResidTol
ResidTol == 100000
rational_max_deg == 4

\* ------------------------------------------------------------------------
\* Integer helpers
\* ------------------------------------------------------------------------
Abs(a) == IF a < 0 THEN -a ELSE a

RECURSIVE Gcd(_, _)
Gcd(a, b) == IF b = 0 THEN Abs(a) ELSE Gcd(Abs(b), Abs(a) % Abs(b))

RECURSIVE Pow(_, _)
Pow(b, e) == IF e = 0 THEN 1 ELSE b * Pow(b, e - 1)

RECURSIVE SumTo(_, _)
\* sum of f[1] .. f[n]
SumTo(f, n) == IF n = 0 THEN 0 ELSE f[n] + SumTo(f, n - 1)

\* The sequence f as an explicit tuple: TLC evaluates a function constructor
\* anew at every application unless it is turned into a tuple first.
Tup(f) == f \o <<>>
\* F applied to the value v
With(v, F(_)) == F(v)

Reverse(s) == Tup([i \in 1..Len(s) |-> s[Len(s) + 1 - i]])

\* ------------------------------------------------------------------------
\* Exact rationals <<num, den>>, den > 0, lowest terms
\* ------------------------------------------------------------------------
Rat(n, d) ==
    LET g == Gcd(n, d)
        s == IF d < 0 THEN -1 ELSE 1
    IN  <<s * (n \div g), s * (d \div g)>>

RInt(n) == <<n, 1>>
RZero == <<0, 1>>
\* the factors are cancelled crosswise before multiplying, to keep numbers small
RMul(a, b) ==
    LET g1 == Gcd(a[1], b[2])
        g2 == Gcd(b[1], a[2])
    IN  <<(a[1] \div g1) * (b[1] \div g2), (a[2] \div g2) * (b[2] \div g1)>>
RInv(a) == IF a[1] < 0 THEN <<-a[2], -a[1]>> ELSE <<a[2], a[1]>>
RDiv(a, b) == RMul(a, RInv(b))
RSub(a, b) ==
    LET g == Gcd(a[2], b[2])
        la == b[2] \div g
        lb == a[2] \div g
    IN  Rat(a[1] * la - b[1] * lb, a[2] * la)
RAdd(a, b) == RSub(a, <<-b[1], b[2]>>)

\* Python's round(): to the nearest integer, ties to the even one
PyRound(a) ==
    LET fl == a[1] \div a[2]
        twice == 2 * (a[1] - fl * a[2])
    IN  IF twice < a[2] THEN fl
        ELSE IF twice > a[2] THEN fl + 1
        ELSE IF fl % 2 = 0 THEN fl ELSE fl + 1

\* abs(c - round(c)) < 1e-9
NearInteger(c) ==
    LET d == Abs(c[1] - PyRound(c) * c[2])
    IN  d = 0 \/ IntTol <= (c[2] - 1) \div d

\* ------------------------------------------------------------------------
\* Exact linear algebra on matrices of rationals (sequences of rows)
\* ------------------------------------------------------------------------
RowScale(row, f) == Tup([j \in 1..Len(row) |-> RMul(row[j], f)])
RowSubMul(row, piv, f) == Tup([j \in 1..Len(row) |-> RSub(row[j], RMul(piv[j], f))])
SetMin(S) == CHOOSE x \in S : \A y \in S : x <= y

RECURSIVE Rref(_, _, _, _, _)
\* Gauss-Jordan elimination of the first ncols columns of A, from pivot row
\* `row` and column `col` on; piv collects the pivot columns.
Rref(A, row, col, piv, ncols) ==
    IF col > ncols \/ row > Len(A) THEN [m |-> A, piv |-> piv]
    ELSE LET cand == {r \in row..Len(A) : A[r][col][1] # 0}
         IN  IF cand = {} THEN Rref(A, row, col + 1, piv, ncols)
             ELSE LET r == SetMin(cand)
                      pr == RowScale(A[r], RInv(A[r][col]))
                      sw == [A EXCEPT ![r] = A[row], ![row] = pr]
                      el == Tup([i \in 1..Len(A) |->
                                IF i = row \/ sw[i][col][1] = 0 THEN sw[i]
                                ELSE RowSubMul(sw[i], pr, sw[i][col])])
                 IN  Rref(el, row + 1, col + 1, Append(piv, col), ncols)

\* The solution of the square system A x = b (integer entries), or
\* <<>> standing for a singular matrix.
SolveNative(A, b) ==
    LET k == Len(A)
        aug == Tup([i \in 1..k |-> Tup([j \in 1..(k + 1) |->
                    IF j <= k THEN RInt(A[i][j]) ELSE RInt(b[i])])])
    IN  With(Rref(aug, 1, 1, <<>>, k), LAMBDA red :
            IF Len(red.piv) < k THEN <<>>
            ELSE Tup([i \in 1..k |-> red.m[i][k + 1]]))

\* M^T M and M^T b for an integer matrix M (m rows, u columns)
NormalMatrix(M, u) ==
    Tup([r \in 1..u |-> Tup([c \in 1..u |->
        SumTo(Tup([i \in 1..Len(M) |-> M[i][r] * M[i][c]]), Len(M))])])
NormalRhs(M, b, u) ==
    Tup([r \in 1..u |-> SumTo(Tup([i \in 1..Len(M) |-> M[i][r] * b[i]]), Len(M))])

\* the sum f[lo] + ... + f[hi] of rationals, by halves
RECURSIVE RSum(_, _, _)
RSum(f, lo, hi) ==
    IF lo > hi THEN RZero
    ELSE IF lo = hi THEN f[lo]
    ELSE LET l == RSum(f, lo, (lo + hi) \div 2)
             r == RSum(f, (lo + hi) \div 2 + 1, hi)
         IN  IF l[1] = 0 THEN r ELSE IF r[1] = 0 THEN l ELSE RAdd(l, r)

RSumAll(f) == RSum(f, 1, Len(f))

MatVec(N, z) ==
    Tup([r \in 1..Len(N) |->
        RSumAll(Tup([c \in 1..Len(z) |-> RMul(RInt(N[r][c]), z[c])]))])

\* sum of the squared residuals b - M x
Residual(M, b, x) ==
    LET res == MatVec(M, x)
    IN  RSumAll(Tup([i \in 1..Len(M) |->
                    With(RSub(RInt(b[i]), res[i]), LAMBDA d : RMul(d, d))]))

RDot(x, y) == RSumAll(Tup([j \in 1..Len(x) |-> RMul(x[j], y[j])]))

RECURSIVE SortedSeq(_)
SortedSeq(S) ==
    IF S = {} THEN <<>> ELSE <<SetMin(S)>> \o SortedSeq(S \ {SetMin(S)})

\* The solution of minimum norm of a consistent system, from its reduced
\* echelon form: the particular solution with the free unknowns at 0, moved
\* along the null space to the point nearest the origin.
MinNorm(red, u) ==
    LET IsPiv(j) == \E r \in 1..Len(red.piv) : red.piv[r] = j
        RowOf(j) == CHOOSE r \in 1..Len(red.piv) : red.piv[r] = j
        x0 == Tup([j \in 1..u |-> IF IsPiv(j) THEN red.m[RowOf(j)][u + 1] ELSE RZero])
        fs == SortedSeq({j \in 1..u : ~ IsPiv(j)})
        nf == Len(fs)
        Z == Tup([a \in 1..nf |-> Tup([j \in 1..u |->
                 IF j = fs[a] THEN RInt(1)
                 ELSE IF IsPiv(j) THEN RSub(RZero, red.m[RowOf(j)][fs[a]])
                 ELSE RZero])])
        G == Tup([a \in 1..nf |-> Tup([c \in 1..(nf + 1) |->
                 IF c <= nf THEN RDot(Z[a], Z[c])
                 ELSE RSub(RZero, RDot(Z[a], x0))])])
        tt == Rref(G, 1, 1, <<>>, nf).m
    IN  Tup([j \in 1..u |->
            RAdd(x0[j], RSumAll(Tup([a \in 1..nf |-> RMul(tt[a][nf + 1], Z[a][j])])))])

\* The least-squares problem M x = b on TLC's integers: the unique solution
\* with full column rank, otherwise the solution of minimum norm.
LstsqNative(M, b, u) ==
    LET N == NormalMatrix(M, u)
        c == NormalRhs(M, b, u)
        aug == Tup([i \in 1..u |-> Tup([j \in 1..(u + 1) |->
                    IF j <= u THEN RInt(N[i][j]) ELSE RInt(c[i])])])
    IN  With(Rref(aug, 1, 1, <<>>, u), LAMBDA red :
        With(IF Len(red.piv) = u THEN Tup([i \in 1..u |-> red.m[i][u + 1]])
             ELSE MinNorm(red, u), LAMBDA x :
            [coeffs |-> x, rank |-> Len(red.piv), resid |-> Residual(M, b, x)]))

\* ------------------------------------------------------------------------
\* Exact linear algebra on larger numbers.  Where the numbers of a fit
\* outgrow TLC's integers, an integer is held by its residues modulo the
\* first L of the primes Moduli (as many as its magnitude needs), and a
\* solution of a linear problem by a numerator and a denominator in that
\* form.
\* ------------------------------------------------------------------------
Moduli ==
    << 46337, 46327, 46309, 46307, 46301, 46279, 46273, 46271,
       46261, 46237, 46229, 46219, 46199, 46187, 46183, 46181,
       46171, 46153, 46147, 46141, 46133, 46103, 46099, 46093,
       46091, 46073, 46061, 46051, 46049, 46027, 46021, 45989,
       45979, 45971, 45959, 45953, 45949, 45943, 45893, 45887,
       45869, 45863, 45853, 45841, 45833, 45827, 45823, 45821 >>

MulMod(a, b, p) == (a * b) % p

\* The inverse of a modulo the prime p, 0 < a < p: from p = (p div a)*a +
\* (p mod a), 1/a = -(p div a)/(p mod a).
RECURSIVE InvMod(_, _)
InvMod(a, p) ==
    IF a = 1 THEN 1
    ELSE (p - MulMod(p \div a, InvMod(p % a, p), p)) % p

\* the sum f[1] + ... + f[n] of naturals: the size of the bag with f[i] + 1
\* copies of i, less n
SumNat(f, n) == BagCardinality([i \in 1..n |-> f[i] + 1]) - n

\* the product Moduli[lo] * ... * Moduli[hi] modulo p, by halves
RECURSIVE ProdMod(_, _, _)
ProdMod(lo, hi, p) ==
    IF lo = hi THEN Moduli[lo] % p
    ELSE MulMod(ProdMod(lo, (lo + hi) \div 2, p),
                ProdMod((lo + hi) \div 2 + 1, hi, p), p)

\* InvTab[i][j], j < i: the inverse of Moduli[j] * ... * Moduli[i-1] modulo
\* Moduli[i]
InvTab ==
    Tup([i \in 1..Len(Moduli) |->
        Tup([j \in 1..(i - 1) |-> InvMod(ProdMod(j, i - 1, Moduli[i]), Moduli[i])])])

\* number of decimal digits of a natural number
RECURSIVE NumDigits(_)
NumDigits(a) == IF a < 10 THEN 1 ELSE 1 + NumDigits(a \div 10)

\* the residues of the integer a
RnsInt(a, L) == Tup([i \in 1..L |-> a % Moduli[i]])
RnsNeg(x) == Tup([i \in 1..Len(x) |-> (Moduli[i] - x[i]) % Moduli[i]])
RnsSub(x, y) == Tup([i \in 1..Len(x) |-> (x[i] - y[i]) % Moduli[i]])
RnsMulInt(x, a) ==
    Tup([i \in 1..Len(x) |-> MulMod(x[i], a % Moduli[i], Moduli[i])])
RnsIsZero(x) == \A i \in 1..Len(x) : x[i] = 0

\* Mixed-radix digits d of x: x = d[1] + d[2]*m1 + d[3]*m1*m2 + ...  Modulo
\* mi, digit i is x[i]/(m1*...*m(i-1)) less the sum of d[j]/(mj*...*m(i-1))
\* over the digits j < i.
MixedDigit(x, d, i) ==
    IF i = 1 THEN x[1]
    ELSE LET p == Moduli[i]
             below == SumNat([j \in 1..(i - 1) |->
                                 MulMod(d[j] % p, InvTab[i][j], p)], i - 1)
         IN  (MulMod(x[i], InvTab[i][1], p) + (p - (below % p))) % p

\* The digits lo..hi appended to the digits d of the places below lo, by
\* halves: first the digits lo..mid, then the rest.
RECURSIVE MixedRadix(_, _, _, _)
MixedRadix(x, d, lo, hi) ==
    IF lo = hi THEN Append(d, MixedDigit(x, d, lo))
    ELSE LET mid == (lo + hi) \div 2
             lower == MixedRadix(x, d, lo, mid)
         IN  IF Len(lower) = mid THEN MixedRadix(x, lower, mid + 1, hi)
             ELSE lower

\* (m1*...*mL - 1)/2 has the digits (mi - 1)/2: the residues above it stand
\* for the negative numbers.  The highest digit that differs decides.
SignFrom(d) ==
    LET differ == {i \in 1..Len(d) : d[i] # (Moduli[i] - 1) \div 2}
        top == CHOOSE i \in differ : \A k \in differ : k <= i
    IN  IF differ = {} THEN 1
        ELSE IF d[top] > (Moduli[top] - 1) \div 2 THEN -1 ELSE 1

RnsSign(x) ==
    IF RnsIsZero(x) THEN 0 ELSE SignFrom(MixedRadix(x, <<>>, 1, Len(x)))

\* A quotient num/den of two integers in residues, den > 0
Quot(num, den) ==
    IF RnsSign(den) < 0
    THEN [native |-> FALSE, num |-> RnsNeg(num), den |-> RnsNeg(den)]
    ELSE [native |-> FALSE, num |-> num, den |-> den]

\* num - k*den, and its sign: that of q - k
QMinus(q, k) == RnsSub(q.num, RnsMulInt(q.den, k))
QCmp(q, k) == RnsSign(QMinus(q, k))

\* a power of two h with -h <= q < h
QBracket(q) ==
    CHOOSE h \in {2^e : e \in 0..30} : QCmp(q, h) < 0 /\ QCmp(q, 0 - h) >= 0

RECURSIVE QBisect(_, _, _)
\* floor(q), given lo <= q < hi
QBisect(q, lo, hi) ==
    IF hi = lo + 1 THEN lo
    ELSE LET mid == (lo + hi) \div 2
         IN  IF QCmp(q, mid) >= 0 THEN QBisect(q, mid, hi)
             ELSE QBisect(q, lo, mid)

QFloor(q) == With(QBracket(q), LAMBDA h : QBisect(q, 0 - h, h))

\* Python's round() of a quotient in residues
RnsRound(q) ==
    With(QFloor(q), LAMBDA fl :
    With(RnsSign(RnsSub(RnsMulInt(QMinus(q, fl), 2), q.den)), LAMBDA s :
        IF s < 0 THEN fl
        ELSE IF s > 0 THEN fl + 1
        ELSE IF fl % 2 = 0 THEN fl ELSE fl + 1))

\* abs(c - round(c)) < 1e-9 for a quotient in residues
RnsNearInteger(q) ==
    With(QMinus(q, RnsRound(q)), LAMBDA e :
        RnsSign(RnsSub(RnsMulInt(IF RnsSign(e) < 0 THEN RnsNeg(e) ELSE e, IntTol),
                       q.den)) < 0)

\* --- arithmetic modulo one prime -----------------------------------------
DotMod(f, g, n, p) == SumNat([i \in 1..n |-> (f[i] * g[i]) % p], n) % p
MatVecMod(A, v, p) == Tup([r \in 1..Len(A) |-> DotMod(A[r], v, Len(v), p)])
MatMulMod(A, B, p) ==
    Tup([r \in 1..Len(A) |-> Tup([c \in 1..Len(A) |->
        SumNat([i \in 1..Len(A) |-> (A[r][i] * B[i][c]) % p], Len(A)) % p])])
TraceMod(A, p) == SumNat([i \in 1..Len(A) |-> A[i][i]], Len(A)) % p
AddDiag(A, c, p) ==
    Tup([r \in 1..Len(A) |-> Tup([j \in 1..Len(A) |->
        IF r = j THEN (A[r][j] + c) % p ELSE A[r][j]])])
Identity(k) == Tup([r \in 1..k |-> Tup([j \in 1..k |-> IF r = j THEN 1 ELSE 0])])

RECURSIVE Leverrier(_, _, _, _)
\* Faddeev-LeVerrier for the k x k matrix G modulo p, after j steps: the
\* coefficients c[1..j] of det(t*I - G) = t^k + c[1]*t^(k-1) + ... + c[k],
\* w[i] = B_i v for the matrices B_1 = I, B_(i+1) = G*B_i + c[i]*I, and
\* B = B_(j+1).
Leverrier(G, v, p, j) ==
    IF j = 0 THEN [c |-> <<>>, w |-> <<>>, B |-> Identity(Len(G))]
    ELSE LET prev == Leverrier(G, v, p, j - 1)
             GB == MatMulMod(G, prev.B, p)
             cj == MulMod((p - TraceMod(GB, p)) % p, InvMod(j, p), p)
         IN  [c |-> Append(prev.c, cj),
              w |-> Append(prev.w, MatVecMod(prev.B, v, p)),
              B |-> AddDiag(GB, cj, p)]

\* the integer matrix A and vector b reduced modulo p
MatMod(A, p) == Tup([r \in 1..Len(A) |-> Tup([j \in 1..Len(A[r]) |-> A[r][j] % p])])
VecMod(b, p) == Tup([r \in 1..Len(b) |-> b[r] % p])

\* largest absolute value in a vector / matrix of integers
SetMax(S) == CHOOSE x \in S : \A y \in S : y <= x
VecMaxAbs(b) == SetMax({0} \cup {Abs(b[i]) : i \in 1..Len(b)})
MatMaxAbs(A) == SetMax({0} \cup {VecMaxAbs(A[r]) : r \in 1..Len(A)})

\* how many moduli hold every number met when the problem with k unknowns,
\* matrix entries of at most dg digits and right-hand sides of at most dv
\* digits is solved and its solution is rounded and gated: these numbers
\* stay below 10^(k*(dg + 2) + 2*dv + 24), and every modulus exceeds 10^4
NumModuli(k, dg, dv) == (k * (dg + 2) + 2 * dv + 24) \div 4 + 1


\* M^T M and M^T b modulo p for an integer matrix M (m rows, u columns)
NormalMatrixMod(M, u, p) ==
    Tup([r \in 1..u |-> Tup([c \in 1..u |->
        SumNat([i \in 1..Len(M) |-> ((M[i][r] % p) * (M[i][c] % p)) % p],
               Len(M)) % p])])
NormalRhsMod(M, b, u, p) ==
    Tup([r \in 1..u |->
        SumNat([i \in 1..Len(M) |-> ((M[i][r] % p) * (b[i] % p)) % p],
               Len(M)) % p])

\* The square system A x = b (integer entries) in residues: the solution
\* x = -(B_k b)/c[k] as quotients, or <<>> standing for a singular matrix.
SolveRns(A, b, L) ==
    LET k == Len(A)
        lev == Tup([i \in 1..L |->
                   Leverrier(MatMod(A, Moduli[i]), VecMod(b, Moduli[i]),
                             Moduli[i], k)])
    IN  With(lev, LAMBDA lv :
        With(Tup([i \in 1..L |-> lv[i].c[k]]), LAMBDA den :
            IF RnsIsZero(den) THEN <<>>
            ELSE Tup([j \in 1..k |->
                     Quot(RnsNeg(Tup([i \in 1..L |-> lv[i].w[k][j]])), den)])))

\* The least-squares problem M x = b in residues: with G = M^T M of rank r
\* and v = M^T b the solution is x = -(B_r v)/c[r], of minimum norm when
\* r < u; resid is the sum of the squared residuals, b.b - v.x.
LstsqRns(M, b, u, L) ==
    LET lev == Tup([i \in 1..L |->
                   Leverrier(NormalMatrixMod(M, u, Moduli[i]),
                             NormalRhsMod(M, b, u, Moduli[i]),
                             Moduli[i], u)])
    IN  With(lev, LAMBDA lv :
        With(SetMax({0} \cup {j \in 1..u : \E i \in 1..L : lv[i].c[j] # 0}),
             LAMBDA rank :
        With(IF rank = 0 THEN RnsInt(1, L)
             ELSE Tup([i \in 1..L |-> lv[i].c[rank]]), LAMBDA den :
        With(Tup([j \in 1..u |->
                 IF rank = 0 THEN RnsInt(0, L)
                 ELSE RnsNeg(Tup([i \in 1..L |-> lv[i].w[rank][j]]))]), LAMBDA num :
        With(Tup([i \in 1..L |->
                 With(VecMod(b, Moduli[i]), LAMBDA bm :
                     (MulMod(den[i], DotMod(bm, bm, Len(b), Moduli[i]), Moduli[i])
                      - DotMod(NormalRhsMod(M, b, u, Moduli[i]),
                               Tup([j \in 1..u |-> num[j][i]]), u, Moduli[i]))
                     % Moduli[i])]), LAMBDA rss :
            [rank |-> rank,
             coeffs |-> Tup([j \in 1..u |-> Quot(num[j], den)]),
             resid |-> Quot(rss, den)])))))

\* ------------------------------------------------------------------------
\* The solvers of numpy and scipy, and the gates on what they return.  A
\* problem whose numbers stay small is solved on TLC's integers, a larger
\* one in residues; both ways give the same exact solution.
\* ------------------------------------------------------------------------
Native(q) == [native |-> TRUE, q |-> q]
UseNative(L) == L <= 16

\* scipy.linalg.solve(A, b): the solution, <<>> for a singular matrix
SolveSquare(A, b) ==
    LET L == NumModuli(Len(A), NumDigits(MatMaxAbs(A)), NumDigits(VecMaxAbs(b)))
    IN  IF UseNative(L)
        THEN With(SolveNative(A, b), LAMBDA x :
                 IF x = <<>> THEN <<>> ELSE Tup([j \in 1..Len(x) |-> Native(x[j])]))
        ELSE SolveRns(A, b, L)

\* The least-squares solution of M x = b (u unknowns), as numpy computes it
\* from the singular values, the rank of M, and the sum of the squared
\* residuals.
LeastSquares(M, b, u) ==
    LET dm == NumDigits(Len(M))
        dM == NumDigits(MatMaxAbs(M))
        L == NumModuli(u, dm + 2 * dM, dm + dM + NumDigits(VecMaxAbs(b)))
    IN  IF UseNative(L)
        THEN With(LstsqNative(M, b, u), LAMBDA fit :
                 [coeffs |-> Tup([j \in 1..u |-> Native(fit.coeffs[j])]),
                  rank |-> fit.rank,
                  resid |-> Native(fit.resid)])
        ELSE LstsqRns(M, b, u, L)

\* round(c) and abs(c - round(c)) < 1e-9 for a coefficient of a solution
QRound(c) == IF c.native THEN PyRound(c.q) ELSE RnsRound(c)
QNearInteger(c) == IF c.native THEN NearInteger(c.q) ELSE RnsNearInteger(c)

\* ------------------------------------------------------------------------
\* Inputs of the testers
\* ------------------------------------------------------------------------
Vals == {-1, 0, 1, 2}
RECURSIVE SeqsOfLen(_)
SeqsOfLen(n) ==
    IF n = 0 THEN {<<>>}
    ELSE {Append(s, v) : s \in SeqsOfLen(n - 1), v \in Vals}
AllSeqs == UNION {SeqsOfLen(n) : n \in 0..MaxLen}
\* the named sequences of section 8 of the specification
Squares == <<1, 4, 9, 16, 25, 36, 49, 64, 81, 100>>
PowersOfTwo == <<2, 4, 8, 16, 32, 64>>
Primes == <<2, 3, 5, 7, 11, 13, 17, 19, 23, 29>>
Fibonacci == <<1, 1, 2, 3, 5, 8, 13, 21, 34, 55>>
Named == {Squares, PowersOfTwo}

\* An input: the terms, and the index of a term of 2^64 or more (0: none),
\* whose entry in terms is the placeholder 0.
BigVals == {0, 1}
Inputs ==
    {[terms |-> s, big |-> 0] : s \in AllSeqs \cup Named}
    \cup
    UNION {{[terms |-> s, big |-> p] : p \in {i \in 1..Len(s) : s[i] = 0}} :
           s \in {x \in AllSeqs : \A i \in 1..Len(x) : x[i] \in BigVals}}

\* the worked examples and the negative control of the specification, with
\* their prefixes
NamedInputs ==
    {[terms |-> SubSeq(s, 1, n), big |-> 0] :
        s \in {Squares, Primes, Fibonacci}, n \in 1..10}

\* ------------------------------------------------------------------------
\* test_polynomial_conjecture (src/core/conjecture_engine.py)
\* ------------------------------------------------------------------------
fit_len(sequence_data) == (Len(sequence_data) * RatioNum) \div RatioDen

\* np.polyfit(x_fit, y_fit, degree) with x_fit = 1..n: the least-squares
\* coefficients, highest power first.
polyfit(y_fit, degree) ==
    LET n == Len(y_fit)
        \* Vandermonde matrix, lowest power first
        V == Tup([i \in 1..n |-> Tup([j \in 1..(degree + 1) |-> Pow(i, j - 1)])])
    IN  Reverse(LeastSquares(V, y_fit, degree + 1).coeffs)

\* poly_formula.subs(n, i): exact integer evaluation
PolyEval(coeffs, i) ==
    SumTo(Tup([j \in 1..Len(coeffs) |-> coeffs[j] * Pow(i, Len(coeffs) - j)]),
          Len(coeffs))

\* Faulty variant of the verification loop: only the terms used for the fit.
PolyVerified_FitWindowOnly(inp, coeffs) ==
    \A i \in 1..fit_len(inp.terms) :
        i # inp.big /\ PolyEval(coeffs, i) = inp.terms[i]

\* the verification loop over the entire sequence
PolyVerified(inp, coeffs) ==
    \A i \in 1..Len(inp.terms) :
        i # inp.big /\ PolyEval(coeffs, i) = inp.terms[i]

Failed(fits) == [status |-> "failed", degree |-> 0, coeffs |-> <<>>, fits |-> fits]

RECURSIVE PolySearch(_, _, _)
PolySearch(inp, degree, fits) ==
    LET fl == fit_len(inp.terms)
    IN  IF degree > max_degree THEN Failed(fits)
        ELSE IF fl <= degree THEN PolySearch(inp, degree + 1, fits)
        ELSE IF inp.big \in 1..fl THEN
            \* the fit of an object array raises TypeError, which is not
            \* the LinAlgError the code catches
            [status |-> "raised", degree |-> degree, coeffs |-> <<>>, fits |-> fits + 1]
        ELSE With(polyfit(SubSeq(inp.terms, 1, fl), degree), LAMBDA coeffs :
                 IF ~ \A j \in 1..Len(coeffs) : QNearInteger(coeffs[j])
                 THEN PolySearch(inp, degree + 1, fits + 1)
                 ELSE With(Tup([j \in 1..Len(coeffs) |-> QRound(coeffs[j])]),
                           LAMBDA rounded_coeffs :
                          IF PolyVerified(inp, rounded_coeffs)
                          THEN [status |-> "verified", degree |-> degree,
                                coeffs |-> rounded_coeffs, fits |-> fits + 1]
                          ELSE PolySearch(inp, degree + 1, fits + 1)))

\* Faulty variant of the search: the degree range starts at 2.
test_polynomial_conjecture_FromTwo(inp) ==
    IF fit_len(inp.terms) < 2 THEN Failed(0)
    ELSE PolySearch(inp, 2, 0)

test_polynomial_conjecture(inp) ==
    IF fit_len(inp.terms) < 2 THEN Failed(0)
    ELSE PolySearch(inp, 1, 0)

\* ------------------------------------------------------------------------
\* test_linear_recurrence_conjecture (src/core/conjecture_engine.py)
\* ------------------------------------------------------------------------
\* Row r of A is reversed(sequence_data[i-k:i]) and b[r] is sequence_data[i],
\* for the 0-based i = k + r - 1.
\* the rows of A without the reversal
RecMatrix_NotReversed(terms, k) ==
    Tup([r \in 1..k |-> Tup([j \in 1..k |-> terms[r + j - 1]])])

\* row r of A: list(reversed(sequence_data[i-k:i])) for i = k + r - 1
RecMatrix(terms, k) == Tup([r \in 1..k |-> Tup([j \in 1..k |-> terms[k + r - j]])])
RecRhs(terms, k) == Tup([r \in 1..k |-> terms[k + r]])

\* sum(c * sequence_data[i-j-1] ...) for the 1-based index i
RecPredict(terms, coeffs, i) ==
    SumTo(Tup([j \in 1..Len(coeffs) |-> coeffs[j] * terms[i - j]]), Len(coeffs))

\* Faulty variant of the verification loop: the last term is not checked.
RecVerified_DropLast(inp, coeffs, k) ==
    \A i \in (k + 1)..(Len(inp.terms) - 1) :
        i # inp.big /\ RecPredict(inp.terms, coeffs, i) = inp.terms[i]

\* the verification loop: range(k, len(sequence_data)), 0-based
RecVerified(inp, coeffs, k) ==
    \A i \in (k + 1)..Len(inp.terms) :
        i # inp.big /\ RecPredict(inp.terms, coeffs, i) = inp.terms[i]

RECURSIVE RecSearch_StrictGuard(_, _, _)
\* Faulty variant of the search: the length guard skips the depth whose
\* solving window is the whole sequence (<= in place of <).
RecSearch_StrictGuard(inp, k, fits) ==
    IF k > max_depth THEN Failed(fits)
    ELSE IF Len(inp.terms) <= 2 * k THEN RecSearch_StrictGuard(inp, k + 1, fits)
    ELSE IF inp.big \in 1..(2 * k) THEN
        [status |-> "raised", degree |-> k, coeffs |-> <<>>, fits |-> fits + 1]
    ELSE With(SolveSquare(RecMatrix(inp.terms, k), RecRhs(inp.terms, k)),
              LAMBDA coeffs :
             IF coeffs = <<>> THEN RecSearch_StrictGuard(inp, k + 1, fits + 1)
             ELSE IF ~ \A j \in 1..k : QNearInteger(coeffs[j])
             THEN RecSearch_StrictGuard(inp, k + 1, fits + 1)
             ELSE With(Tup([j \in 1..k |-> QRound(coeffs[j])]),
                       LAMBDA rounded_coeffs :
                      IF RecVerified(inp, rounded_coeffs, k)
                      THEN [status |-> "verified", degree |-> k,
                            coeffs |-> rounded_coeffs, fits |-> fits + 1]
                      ELSE RecSearch_StrictGuard(inp, k + 1, fits + 1)))

RECURSIVE RecSearch_LooseGuard(_, _, _)
\* Faulty variant of the search: the length guard asks for k terms instead of
\* 2k, so that the system is built from terms the sequence does not have
\* (an IndexError).
RecSearch_LooseGuard(inp, k, fits) ==
    IF k > max_depth THEN Failed(fits)
    ELSE IF Len(inp.terms) < k THEN RecSearch_LooseGuard(inp, k + 1, fits)
    ELSE IF Len(inp.terms) < 2 * k \/ inp.big \in 1..(2 * k) THEN
        [status |-> "raised", degree |-> k, coeffs |-> <<>>, fits |-> fits + 1]
    ELSE With(SolveSquare(RecMatrix(inp.terms, k), RecRhs(inp.terms, k)),
              LAMBDA coeffs :
             IF coeffs = <<>> THEN RecSearch_LooseGuard(inp, k + 1, fits + 1)
             ELSE IF ~ \A j \in 1..k : QNearInteger(coeffs[j])
             THEN RecSearch_LooseGuard(inp, k + 1, fits + 1)
             ELSE With(Tup([j \in 1..k |-> QRound(coeffs[j])]),
                       LAMBDA rounded_coeffs :
                      IF RecVerified(inp, rounded_coeffs, k)
                      THEN [status |-> "verified", degree |-> k,
                            coeffs |-> rounded_coeffs, fits |-> fits + 1]
                      ELSE RecSearch_LooseGuard(inp, k + 1, fits + 1)))

RECURSIVE RecSearch(_, _, _)
RecSearch(inp, k, fits) ==
    IF k > max_depth THEN Failed(fits)
    ELSE IF Len(inp.terms) < 2 * k THEN RecSearch(inp, k + 1, fits)
    ELSE IF inp.big \in 1..(2 * k) THEN
        \* scipy's solve refuses an object array with ValueError, which is
        \* not the LinAlgError the code catches
        [status |-> "raised", degree |-> k, coeffs |-> <<>>, fits |-> fits + 1]
    ELSE With(SolveSquare(RecMatrix(inp.terms, k), RecRhs(inp.terms, k)),
              LAMBDA coeffs :
             IF coeffs = <<>> THEN RecSearch(inp, k + 1, fits + 1)
             ELSE IF ~ \A j \in 1..k : QNearInteger(coeffs[j])
             THEN RecSearch(inp, k + 1, fits + 1)
             ELSE With(Tup([j \in 1..k |-> QRound(coeffs[j])]),
                       LAMBDA rounded_coeffs :
                      IF RecVerified(inp, rounded_coeffs, k)
                      THEN [status |-> "verified", degree |-> k,
                            coeffs |-> rounded_coeffs, fits |-> fits + 1]
                      ELSE RecSearch(inp, k + 1, fits + 1)))

test_linear_recurrence_conjecture(inp) == RecSearch(inp, 1, 0)

\* ------------------------------------------------------------------------
\* test_rational_conjecture (src/core/rational_conjecture.py)
\* ------------------------------------------------------------------------
\* Row i of M: p_row = [n**k for k in reversed(range(p_deg + 1))] followed
\* by q_row = [-an * n**k for k in reversed(range(q_deg))]
RatRow(terms, p_deg, q_deg, i) ==
    Tup([c \in 1..(p_deg + q_deg + 1) |->
        IF c <= p_deg + 1 THEN Pow(i, p_deg + 1 - c)
        ELSE (0 - terms[i]) * Pow(i, p_deg + q_deg + 1 - c)])

\* np.linalg.lstsq(M, b, rcond=None): the least-squares solution; with full
\* column rank and more rows than columns the residual is reported,
\* otherwise the residuals array is empty.
lstsq(M, b, u) ==
    With(LeastSquares(M, b, u), LAMBDA fit :
        [coeffs |-> fit.coeffs,
         has_resid |-> fit.rank = u /\ Len(M) > u,
         resid |-> fit.resid])

\* residuals[0] > 1e-5
ResidualTooLarge(r) ==
    IF r.native THEN r.q[1] > 0 /\ r.q[2] \div r.q[1] < ResidTol
    ELSE RnsSign(RnsSub(RnsMulInt(r.num, ResidTol), r.den)) > 0

\* abs(predicted_val - true_val) > 1e-9 for predicted_val = p_val / q_val
RatMismatch(p_val, q_val, true_val) ==
    LET d == Abs(p_val - true_val * q_val)
    IN  d # 0 /\ Abs(q_val) \div d < IntTol

\* Faulty variant of the final verification: no test of the denominator.
RatVerified_NoZeroCheck(inp, p_coeffs, q_coeffs) ==
    \A i \in 1..Len(inp.terms) :
        ~ RatMismatch(PolyEval(p_coeffs, i), PolyEval(q_coeffs, i),
                      inp.terms[i])

\* the final verification loop
RatVerified(inp, p_coeffs, q_coeffs) ==
    \A i \in 1..Len(inp.terms) :
        /\ PolyEval(q_coeffs, i) # 0
        /\ ~ RatMismatch(PolyEval(p_coeffs, i), PolyEval(q_coeffs, i),
                         inp.terms[i])

RatFailed(fits) ==
    [status |-> "failed", p_deg |-> 0, q_deg |-> 0,
     p_coeffs |-> <<>>, q_coeffs |-> <<>>, fits |-> fits]

IMin(a, b) == IF a < b THEN a ELSE b

\* One pass of the loop body for the pair (p_deg, q_deg); fits counts the
\* calls of lstsq.
RatTry(inp, p_deg, q_deg) ==
    LET len == Len(inp.terms)
        num_coeffs == p_deg + q_deg + 2
        fit_points == IMin(len, num_coeffs + 2)
        M == Tup([i \in 1..fit_points |-> RatRow(inp.terms, p_deg, q_deg, i)])
        b == Tup([i \in 1..fit_points |-> inp.terms[i]])
    IN  IF len < num_coeffs THEN RatFailed(0)
        ELSE With(lstsq(M, b, num_coeffs - 1), LAMBDA fit :
            IF fit.has_resid /\ ResidualTooLarge(fit.resid) THEN RatFailed(1)
            ELSE IF ~ \A j \in 1..(num_coeffs - 1) : QNearInteger(fit.coeffs[j])
            THEN RatFailed(1)
            ELSE With(Tup([j \in 1..(num_coeffs - 1) |-> QRound(fit.coeffs[j])]),
                      LAMBDA rounded_coeffs :
                 With(SubSeq(rounded_coeffs, 1, p_deg + 1), LAMBDA p_coeffs :
                 With(Append(SubSeq(rounded_coeffs, p_deg + 2, num_coeffs - 1), 1),
                      LAMBDA q_coeffs :
                     IF RatVerified(inp, p_coeffs, q_coeffs)
                     THEN [status |-> "verified", p_deg |-> p_deg, q_deg |-> q_deg,
                           p_coeffs |-> p_coeffs, q_coeffs |-> q_coeffs, fits |-> 1]
                     ELSE RatFailed(1)))))

\* The nested loops "for p_deg in range(max_deg + 1): for q_deg in
\* range(1, max_deg + 1)" visit md*(md+1) pairs; pass n (from 1) has
\* p_deg = (n-1) div md and q_deg = (n-1) mod md + 1.  RatSearch runs the
\* passes lo..hi in order up to the first that returns 'verified'.
RECURSIVE RatSearch(_, _, _, _)
RatSearch(inp, md, lo, hi) ==
    IF lo > hi THEN RatFailed(0)
    ELSE IF lo = hi
    THEN RatTry(inp, (lo - 1) \div md, ((lo - 1) % md) + 1)
    ELSE LET mid == (lo + hi) \div 2
             first == RatSearch(inp, md, lo, mid)
             rest == RatSearch(inp, md, mid + 1, hi)
         IN  IF first.status = "verified" THEN first
             ELSE [rest EXCEPT !.fits = @ + first.fits]

\* the adjustment of max_deg rounding the other way
RatCeiling_RoundsUp(len) ==
    IF len < 2 * rational_max_deg + 2 THEN (len - 1) \div 2
    ELSE rational_max_deg

\* max_deg after the adjustment to the length of the sequence
RatCeiling(len) ==
    IF len < 2 * rational_max_deg + 2 THEN (len - 2) \div 2
    ELSE rational_max_deg

\* test_rational_conjecture without the pre-check for large numbers
test_rational_conjecture_NoPrecheck(inp) ==
    IF RatCeiling(Len(inp.terms)) < 0 THEN RatFailed(0)
    ELSE LET md == RatCeiling(Len(inp.terms))
         IN  RatSearch(inp, md, 1, md * (md + 1))

test_rational_conjecture(inp) ==
    IF inp.big # 0 THEN RatFailed(0)     \* OverflowError of the pre-check
    ELSE IF RatCeiling(Len(inp.terms)) < 0 THEN RatFailed(0)
    ELSE LET md == RatCeiling(Len(inp.terms))
         IN  RatSearch(inp, md, 1, md * (md + 1))

\* ------------------------------------------------------------------------
\* test_exponential_conjecture: imported by src/main_analyzer.py from
\* core.conjecture_engine, which does not define it; modelled from section
\* 4.3 of the specification.  The iterative solver is taken to converge
\* exactly when the three equations A*B^i + C = a(i), i = 1..3, have a
\* solution with B outside {0, 1}.
\* ------------------------------------------------------------------------
ExpFailed(fits) == [status |-> "failed", A |-> 0, B |-> 0, C |-> 0, fits |-> fits]

ExpVerified(inp, A, B, C) ==
    \A i \in 1..Len(inp.terms) :
        i # inp.big /\ A * Pow(B, i) + C = inp.terms[i]

\* the exponential tester accepting sequences of three terms or more
test_exponential_conjecture_MinThree(inp) ==
    LET a == inp.terms
        d1 == a[2] - a[1]
        d2 == a[3] - a[2]
        B == Rat(d2, d1)
        A == RDiv(RInt(d1), RMul(B, RSub(B, RInt(1))))
        C == RSub(RInt(a[1]), RMul(A, B))
    IN  IF Len(a) < 3 THEN ExpFailed(0)
        ELSE IF inp.big \in 1..3 THEN ExpFailed(0)
        ELSE IF d1 = 0 \/ d2 = 0 \/ d1 = d2 THEN ExpFailed(1)
        ELSE IF ~ (NearInteger(A) /\ NearInteger(B) /\ NearInteger(C))
        THEN ExpFailed(1)
        ELSE IF PyRound(B) = 1 \/ PyRound(A) = 0 THEN ExpFailed(1)
        ELSE IF ExpVerified(inp, PyRound(A), PyRound(B), PyRound(C))
        THEN [status |-> "verified", A |-> PyRound(A), B |-> PyRound(B),
              C |-> PyRound(C), fits |-> 1]
        ELSE ExpFailed(1)

test_exponential_conjecture(inp) ==
    LET a == inp.terms
        d1 == a[2] - a[1]
        d2 == a[3] - a[2]
        B == Rat(d2, d1)
        A == RDiv(RInt(d1), RMul(B, RSub(B, RInt(1))))
        C == RSub(RInt(a[1]), RMul(A, B))
    IN  IF Len(a) < 5 THEN ExpFailed(0)
        ELSE IF inp.big \in 1..3 THEN ExpFailed(0)
        ELSE IF d1 = 0 \/ d2 = 0 \/ d1 = d2 THEN ExpFailed(1)
        ELSE IF ~ (NearInteger(A) /\ NearInteger(B) /\ NearInteger(C))
        THEN ExpFailed(1)
        ELSE IF PyRound(B) = 1 \/ PyRound(A) = 0 THEN ExpFailed(1)
        ELSE IF ExpVerified(inp, PyRound(A), PyRound(B), PyRound(C))
        THEN [status |-> "verified", A |-> PyRound(A), B |-> PyRound(B),
              C |-> PyRound(C), fits |-> 1]
        ELSE ExpFailed(1)

\* ------------------------------------------------------------------------
\* State of the tester calls
\* ------------------------------------------------------------------------
VARIABLES input, results
testerVars == <<input, results>>

\* State of the orchestrator, main() of src/main_analyzer.py
VARIABLES
    ENABLE_TESTS,   \* the configured list of test keys
    DRY_RUN,        \* the configured dry-run switch
    phase,          \* where main() is: "start", "fetch", "collect", "report",
                    \* "done", or "crashed" when an exception left main()
    idx,            \* 1-based position in normalized_ids
    task,           \* per entry of tests_plan: its run_test_with_timeout call
                    \*   st: "waiting" in fut.result, "timedout" with its
                    \*       error dict, "returned", "collected" by main()
                    \*   thr: the worker thread in the tester, "running"
                    \*       or "ended"
                    \*   out: what the tester did, res: the status returned
    results_map,    \* the dict results: label -> status, "missing" if absent
    rpos,           \* position of the reporting loop in tests_plan
    totals,         \* the metrics
    log,            \* the outcomes reported for the current sequence, in order
    pr              \* the calls of create_pr_for_finding, and those that raised
orchVars == <<ENABLE_TESTS, DRY_RUN, phase, idx, task, results_map, rpos,
              totals, log, pr>>

\* State of one run of fetch_sequence_data_with_retries (src/main_analyzer.py)
\* for one identifier, and of its cache file
VARIABLES
    cfg,            \* CACHE_ENABLED, MAX_FETCH_RETRIES, FETCH_RETRY_BASE_SLEEP,
                    \* CACHE_TTL_HOURS as read from the environment
    cache,          \* the cache file of the identifier: NoFile, or its age in
                    \* hours and its content (Corrupt when json.load fails)
    fpc,            \* "idle", "attempt" (before a call of the provider),
                    \* "sleep" (before time.sleep), "returned"
    attempt,        \* the loop variable
    provider_calls, \* calls of fetch_b_file_data in this invocation
    cache_ops,      \* the accesses to the cache directory and file made in
                    \* this invocation, in order
    sleeps,         \* the delays slept in this invocation, in order
    ret,            \* the value returned
    invocations     \* invocations started so far
fetchVars == <<cfg, cache, fpc, attempt, provider_calls, cache_ops, sleeps,
               ret, invocations>>

\* State of one call of create_pr_for_finding (src/core/reporting.py)
VARIABLES
    env,            \* GITHUB_REPOSITORY and GITHUB_TOKEN as read at import
    step,           \* the statement the call has reached
    requests,       \* the HTTP requests sent so far and how each ended
    escaped         \* the exception that left the function, or "none"
reportVars == <<env, step, requests, escaped>>

\* data/candidate_sequences.json and one run each of run_target_finder.main
\* (src/run_target_finder.py) and of the loading part of main_analyzer.main
VARIABLES
    candidates_file, \* data/candidate_sequences.json
    finder,         \* the finder's runs so far; of the last one: the file it
                    \* found, new_candidate_ids, whether it saved
    apc,            \* the position of the analyzer: "idle", "analyze", "done"
    normalized_ids, \* the analyzer's list after validation and de-duplication
    analyzed        \* the identifiers whose analysis began, in order
candVars == <<candidates_file, finder, apc, normalized_ids, analyzed>>

\* the variables outside the testers and the orchestrator
ioVars == <<fetchVars, reportVars, candVars>>

vars == <<input, results, ENABLE_TESTS, DRY_RUN, phase, idx, task, results_map,
          rpos, totals, log, pr, ioVars>>

Testers == {"polynomial", "linear_recurrence", "exponential", "rational_function"}
NotRun == [status |-> "notrun"]

\* the testers are pure functions of their input: tabulated once
PolynomialResult == [inp \in Inputs \cup NamedInputs |-> test_polynomial_conjecture(inp)]
RecurrenceResult == [inp \in Inputs \cup NamedInputs |-> test_linear_recurrence_conjecture(inp)]
RationalResult == [inp \in Inputs \cup NamedInputs |-> test_rational_conjecture(inp)]
ExponentialResult == [inp \in Inputs \cup NamedInputs |-> test_exponential_conjecture(inp)]

\* the orchestrator before main() is entered
OrchIdle ==
    /\ ENABLE_TESTS = <<>>
    /\ DRY_RUN = FALSE
    /\ phase = "idle"
    /\ idx = 0
    /\ task = <<>>
    /\ results_map = <<>>
    /\ rpos = 0
    /\ totals = <<>>
    /\ log = <<>>
    /\ pr = <<>>

\* Python values that the provider returns and the cache stores
PyNone == [kind |-> "None", val |-> <<>>]
PyList(s) == [kind |-> "list", val |-> s]

\* the cache file of the identifier does not exist
NoFile == [state |-> "absent", age |-> 0, val |-> <<>>]

\* fetch_sequence_data_with_retries not in use
FetchIdle ==
    /\ cfg = <<>>
    /\ cache = NoFile
    /\ fpc = "unused"
    /\ attempt = 0
    /\ provider_calls = 0
    /\ cache_ops = <<>>
    /\ sleeps = <<>>
    /\ ret = PyNone
    /\ invocations = 0

\* create_pr_for_finding not in use
ReportIdle ==
    /\ env = <<>>
    /\ step = "unused"
    /\ requests = <<>>
    /\ escaped = "none"

\* the candidate file not in use
CandIdle ==
    /\ candidates_file = <<>>
    /\ finder = <<>>
    /\ apc = "unused"
    /\ normalized_ids = <<>>
    /\ analyzed = <<>>

IoIdle == FetchIdle /\ ReportIdle /\ CandIdle

Init ==
    /\ input \in Inputs
    /\ results = [t \in Testers |-> NotRun]
    /\ OrchIdle
    /\ IoIdle

CallPolynomial ==
    /\ results["polynomial"] = NotRun
    /\ results' = [results EXCEPT !["polynomial"] = PolynomialResult[input]]
    /\ UNCHANGED input
    /\ UNCHANGED <<orchVars, ioVars>>

CallRecurrence ==
    /\ results["linear_recurrence"] = NotRun
    /\ results' = [results EXCEPT !["linear_recurrence"] = RecurrenceResult[input]]
    /\ UNCHANGED input
    /\ UNCHANGED <<orchVars, ioVars>>

CallExponential ==
    /\ results["exponential"] = NotRun
    /\ results' = [results EXCEPT !["exponential"] = ExponentialResult[input]]
    /\ UNCHANGED input
    /\ UNCHANGED <<orchVars, ioVars>>

CallRational ==
    /\ results["rational_function"] = NotRun
    /\ results' = [results EXCEPT !["rational_function"] = RationalResult[input]]
    /\ UNCHANGED input
    /\ UNCHANGED <<orchVars, ioVars>>

Next == CallPolynomial \/ CallRecurrence \/ CallExponential \/ CallRational

Spec == Init /\ [][Next]_vars

\* The four testers called one after the other on a named input.
SuiteOrder == <<"polynomial", "linear_recurrence", "exponential", "rational_function">>
Turn(t) ==
    \E i \in 1..Len(SuiteOrder) :
        /\ SuiteOrder[i] = t
        /\ \A j \in 1..(i - 1) : results[SuiteOrder[j]] # NotRun

InitNamed ==
    /\ input \in NamedInputs
    /\ results = [t \in Testers |-> NotRun]
    /\ OrchIdle
    /\ IoIdle

NextNamed ==
    \/ Turn("polynomial") /\ CallPolynomial
    \/ Turn("linear_recurrence") /\ CallRecurrence
    \/ Turn("exponential") /\ CallExponential
    \/ Turn("rational_function") /\ CallRational

SpecNamed == InitNamed /\ [][NextNamed]_vars

\* ------------------------------------------------------------------------
\* The orchestrator: main() of src/main_analyzer.py
\* ------------------------------------------------------------------------
\* number of entries of normalized_ids
NumCandidates == 2

\* values of the environment variable ENABLE_TESTS: the default, a reordered
\* list, a list naming the rational tester, one label enabled under two keys,
\* and a list without any known key
EnableOptions ==
    { <<"poly", "rec", "exp">>,
      <<"exp", "poly">>,
      <<"rational", "rec">>,
      <<"poly", "polynomial">>,
      <<"rational">> }

\* the label of a test key, "none" for (None, None)
get_test_callable(name) ==
    IF name \in {"poly", "polynomial"} THEN "polynomial"
    ELSE IF name \in {"rec", "recurrence", "linrec", "linear"}
         THEN "linear_recurrence"
    ELSE IF name \in {"exp", "exponential"} THEN "exponential"
    ELSE "none"

RECURSIVE PlanOf(_)
PlanOf(keys) ==
    IF keys = <<>> THEN <<>>
    ELSE LET label == get_test_callable(Head(keys))
         IN  IF label # "none" THEN <<label>> \o PlanOf(Tail(keys))
             ELSE PlanOf(Tail(keys))

\* the labels of tests_plan, in order
tests_plan == PlanOf(ENABLE_TESTS)
PlanLabels == {tests_plan[i] : i \in 1..Len(tests_plan)}

\* what a call of a tester does within the timeout
Outcomes == {"verified", "failed", "raised"}

\* the status of the dict run_test_with_timeout returns for it
run_result(outcome) == IF outcome = "raised" THEN "error" ELSE outcome

\* main() after a call of create_pr_for_finding that raised let the exception
\* out of the reporting loop
after_publish_Uncaught(pub) == IF pub = "raises" THEN "crashed" ELSE "report"

\* main() after a call of create_pr_for_finding: the try/except logs an
\* exception and the reporting loop goes on
after_publish(pub) == "report"

OrchInit ==
    /\ input = [terms |-> <<>>, big |-> 0]
    /\ results = [t \in Testers |-> NotRun]
    /\ ENABLE_TESTS \in EnableOptions
    /\ DRY_RUN \in BOOLEAN
    /\ phase = "start"
    /\ idx = 0
    /\ task = <<>>
    /\ results_map = <<>>
    /\ rpos = 0
    /\ totals = <<>>
    /\ log = <<>>
    /\ pr = [calls |-> 0, raised |-> 0]
    /\ IoIdle

\* lines 262-281: the plan is empty and main() returns, or the metrics are
\* set up and the loop over the candidates starts
Plan ==
    /\ phase = "start"
    /\ IF tests_plan = <<>>
       THEN /\ phase' = "done"
            /\ UNCHANGED <<idx, totals>>
       ELSE /\ phase' = "fetch"
            /\ idx' = 1
            /\ totals' = [candidates_processed |-> 0,
                          fetch_success |-> 0,
                          fetch_failed |-> 0,
                          verified_total |-> 0,
                          verified_by_test |-> [l \in PlanLabels |-> 0],
                          errors_by_test |-> [l \in PlanLabels |-> 0]]
    /\ UNCHANGED <<ENABLE_TESTS, DRY_RUN, task, results_map, rpos, log, pr>>
    /\ UNCHANGED <<testerVars, ioVars>>

\* main() counting a candidate without data as an error of every tester
Fetch_NoDataIsError ==
    /\ phase = "fetch"
    /\ idx <= NumCandidates
    /\ \E sequence_data \in BOOLEAN :
          IF ~sequence_data
          THEN /\ totals' = [totals EXCEPT
                               !.fetch_failed = @ + 1,
                               !.errors_by_test = [l \in PlanLabels |-> @[l] + 1]]
               /\ idx' = idx + 1
               /\ UNCHANGED <<phase, task, results_map, rpos, log>>
          ELSE /\ totals' = [totals EXCEPT !.fetch_success = @ + 1]
               /\ task' = [i \in 1..Len(tests_plan) |->
                             [st |-> "waiting", thr |-> "running",
                              out |-> "none", res |-> "none"]]
               /\ results_map' = [l \in PlanLabels |-> "missing"]
               /\ phase' = "collect"
               /\ rpos' = 0
               /\ log' = <<>>
               /\ UNCHANGED idx
    /\ UNCHANGED <<ENABLE_TESTS, DRY_RUN, pr>>
    /\ UNCHANGED <<testerVars, ioVars>>

\* lines 285-302: the next candidate is fetched; without data it is skipped,
\* with data every entry of the plan is submitted to the executor
Fetch ==
    /\ phase = "fetch"
    /\ idx <= NumCandidates
    /\ \E sequence_data \in BOOLEAN :
          IF ~sequence_data
          THEN /\ totals' = [totals EXCEPT !.fetch_failed = @ + 1]
               /\ idx' = idx + 1
               /\ UNCHANGED <<phase, task, results_map, rpos, log>>
          ELSE /\ totals' = [totals EXCEPT !.fetch_success = @ + 1]
               /\ task' = [i \in 1..Len(tests_plan) |->
                             [st |-> "waiting", thr |-> "running",
                              out |-> "none", res |-> "none"]]
               /\ results_map' = [l \in PlanLabels |-> "missing"]
               /\ phase' = "collect"
               /\ rpos' = 0
               /\ log' = <<>>
               /\ UNCHANGED idx
    /\ UNCHANGED <<ENABLE_TESTS, DRY_RUN, pr>>
    /\ UNCHANGED <<testerVars, ioVars>>

\* lines 191-205: the tester ends within the timeout; fut.result gives its
\* dict, or raises what it raised; the inner executor is shut down at once,
\* its worker being idle
TesterReturns(t) ==
    /\ phase = "collect"
    /\ task[t].st = "waiting" /\ task[t].thr = "running"
    /\ \E outcome \in Outcomes :
          task' = [task EXCEPT ![t] = [st |-> "returned", thr |-> "ended",
                                       out |-> outcome,
                                       res |-> run_result(outcome)]]
    /\ UNCHANGED <<ENABLE_TESTS, DRY_RUN, phase, idx, results_map, rpos,
                   totals, log, pr>>
    /\ UNCHANGED <<testerVars, ioVars>>

\* lines 197, 202-203: fut.result(timeout) raises TimeoutError while the
\* tester is still running; the error dict is the value to return, but the
\* return leaves the with block first
Timeout(t) ==
    /\ phase = "collect"
    /\ task[t].st = "waiting" /\ task[t].thr = "running"
    /\ task' = [task EXCEPT ![t] = [st |-> "timedout", thr |-> "running",
                                    out |-> "timeout", res |-> "error"]]
    /\ UNCHANGED <<ENABLE_TESTS, DRY_RUN, phase, idx, results_map, rpos,
                   totals, log, pr>>
    /\ UNCHANGED <<testerVars, ioVars>>

\* line 192: the tester ends after the timeout; what it returns is dropped
TesterEndsLate(t) ==
    /\ phase = "collect"
    /\ task[t].st = "timedout" /\ task[t].thr = "running"
    /\ task' = [task EXCEPT ![t].thr = "ended"]
    /\ UNCHANGED <<ENABLE_TESTS, DRY_RUN, phase, idx, results_map, rpos,
                   totals, log, pr>>
    /\ UNCHANGED <<testerVars, ioVars>>

\* line 194: leaving `with ThreadPoolExecutor(max_workers=1) as ex` calls
\* ex.shutdown(wait=True), which joins the worker thread; the call of
\* run_test_with_timeout returns when the tester has ended
RunTestExit(t) ==
    /\ phase = "collect"
    /\ task[t].st = "timedout" /\ task[t].thr = "ended"
    /\ task' = [task EXCEPT ![t].st = "returned"]
    /\ UNCHANGED <<ENABLE_TESTS, DRY_RUN, phase, idx, results_map, rpos,
                   totals, log, pr>>
    /\ UNCHANGED <<testerVars, ioVars>>

\* lines 303-311: as_completed yields a finished call and its status is
\* stored under its label; after the last one the reporting loop starts
Collect(t) ==
    /\ phase = "collect"
    /\ task[t].st = "returned"
    /\ task' = [task EXCEPT ![t].st = "collected"]
    /\ results_map' = [results_map EXCEPT ![tests_plan[t]] = task[t].res]
    /\ IF \A u \in 1..Len(tests_plan) : task'[u].st = "collected"
       THEN phase' = "report" /\ rpos' = 1
       ELSE UNCHANGED <<phase, rpos>>
    /\ UNCHANGED <<ENABLE_TESTS, DRY_RUN, idx, totals, log, pr>>
    /\ UNCHANGED <<testerVars, ioVars>>

\* the reporting loop reading an error result as a verified one
ReportedStatus_ErrorVerified(label) ==
    IF results_map[label] \in {"missing", "error"} THEN "verified"
    ELSE results_map[label]

\* the status the reporting loop reads for a label
ReportedStatus(label) ==
    IF results_map[label] = "missing" THEN "error" ELSE results_map[label]

\* lines 314-337: one iteration of the reporting loop
ReportOne ==
    /\ phase = "report"
    /\ rpos <= Len(tests_plan)
    /\ LET label == tests_plan[rpos]
           status == ReportedStatus(label)
       IN  /\ log' = Append(log, <<label, status>>)
           /\ rpos' = rpos + 1
           /\ IF status = "verified"
              THEN /\ totals' = [totals EXCEPT
                                   !.verified_total = @ + 1,
                                   !.verified_by_test[label] = @ + 1]
                   /\ IF DRY_RUN
                      THEN UNCHANGED <<phase, pr>>
                      ELSE \E pub \in {"ok", "raises"} :
                              /\ pr' = [calls |-> pr.calls + 1,
                                        raised |-> pr.raised +
                                            (IF pub = "raises" THEN 1 ELSE 0)]
                              /\ phase' = after_publish(pub)
              ELSE IF status = "error"
              THEN /\ totals' = [totals EXCEPT !.errors_by_test[label] = @ + 1]
                   /\ UNCHANGED <<phase, pr>>
              ELSE UNCHANGED <<phase, pr, totals>>
    /\ UNCHANGED <<ENABLE_TESTS, DRY_RUN, idx, task, results_map>>
    /\ UNCHANGED <<testerVars, ioVars>>

\* lines 339-344: the candidate is done, the loop goes to the next one
FinishSeq ==
    /\ phase = "report"
    /\ rpos > Len(tests_plan)
    /\ totals' = [totals EXCEPT !.candidates_processed = @ + 1]
    /\ idx' = idx + 1
    /\ phase' = "fetch"
    /\ task' = <<>>
    /\ results_map' = <<>>
    /\ rpos' = 0
    /\ log' = <<>>
    /\ UNCHANGED <<ENABLE_TESTS, DRY_RUN, pr>>
    /\ UNCHANGED <<testerVars, ioVars>>

\* lines 346-356: the candidates are exhausted, the summary is logged
Finish ==
    /\ phase = "fetch"
    /\ idx > NumCandidates
    /\ phase' = "done"
    /\ UNCHANGED <<ENABLE_TESTS, DRY_RUN, idx, task, results_map, rpos,
                   totals, log, pr>>
    /\ UNCHANGED <<testerVars, ioVars>>

OrchNext ==
    \/ Plan
    \/ Fetch
    \/ \E t \in DOMAIN task : TesterReturns(t)
    \/ \E t \in DOMAIN task : Timeout(t)
    \/ \E t \in DOMAIN task : TesterEndsLate(t)
    \/ \E t \in DOMAIN task : RunTestExit(t)
    \/ \E t \in DOMAIN task : Collect(t)
    \/ ReportOne
    \/ FinishSeq
    \/ Finish

SpecOrch == OrchInit /\ [][OrchNext]_vars

\* ========================================================================
\* Properties of the testers (specification Spec)
\* ========================================================================
poly == results["polynomial"]
rec == results["linear_recurrence"]
rat == results["rational_function"]
expo == results["exponential"]
Len_ == Len(input.terms)

\* C1: a verified polynomial equals the term at every index 1..n under exact
\* integer evaluation, the indices beyond fit_len included.
C1_PolyVerifiedOnAllTerms ==
    poly.status = "verified" =>
        \A i \in 1..Len_ :
            /\ i # input.big
            /\ SumTo([j \in 1..(poly.degree + 1) |->
                         poly.coeffs[j] * Pow(i, poly.degree + 1 - j)],
                     poly.degree + 1) = input.terms[i]

\* a verified polynomial for a sequence with terms beyond the fit window
C1_Witness ==
    /\ poly.status = "verified"
    /\ fit_len(input.terms) < Len_
    /\ poly.degree >= 2

\* C2: a verified recurrence of depth k satisfies
\* a(i) = c1*a(i-1) + ... + ck*a(i-k) exactly for every i in k+1..n.
C2_RecVerifiedOnAllTerms ==
    rec.status = "verified" =>
        \A i \in (rec.degree + 1)..Len_ :
            /\ i # input.big
            /\ SumTo([j \in 1..rec.degree |-> rec.coeffs[j] * input.terms[i - j]],
                     rec.degree) = input.terms[i]

\* a verified recurrence with terms beyond its solving window
C2_Witness ==
    /\ rec.status = "verified"
    /\ Len_ > 2 * rec.degree
    /\ rec.degree >= 2

\* C3: a verified recurrence of depth k has checked a term beyond the 2k
\* terms of its solving window: the sequence is longer than 2k.
C3_NeverVerifiedOnWindowAlone ==
    rec.status = "verified" => Len_ > 2 * rec.degree

\* C4: the searches are ascending and stop at the first degree (depth) that
\* passes: nothing below a verified degree passes, nothing at all passes when
\* the result is failed, and the squares give degree 2 after the degree-1
\* candidate 9n - 15 failed the verification.
PolyCandidate(inp, d) ==
    LET c == polyfit(SubSeq(inp.terms, 1, fit_len(inp.terms)), d)
    IN  [j \in 1..(d + 1) |-> QRound(c[j])]
PolyGate(inp, d) ==
    /\ fit_len(inp.terms) > d
    /\ \A j \in 1..(d + 1) :
          QNearInteger(polyfit(SubSeq(inp.terms, 1, fit_len(inp.terms)), d)[j])
PolyPasses(inp, d) ==
    /\ PolyGate(inp, d)
    /\ \A i \in 1..Len(inp.terms) :
          i # inp.big /\ PolyEval(PolyCandidate(inp, d), i) = inp.terms[i]
RecPasses(inp, k) ==
    /\ Len(inp.terms) >= 2 * k
    /\ LET c == SolveSquare(RecMatrix(inp.terms, k), RecRhs(inp.terms, k))
       IN  /\ c # <<>>
           /\ \A j \in 1..k : QNearInteger(c[j])
           /\ \A i \in (k + 1)..Len(inp.terms) :
                 /\ i # inp.big
                 /\ RecPredict(inp.terms, [j \in 1..k |-> QRound(c[j])], i)
                        = inp.terms[i]
C4_LowestComplexityFirst ==
    /\ poly.status = "verified" =>
          /\ PolyPasses(input, poly.degree)
          /\ \A d \in 1..(poly.degree - 1) : ~ PolyPasses(input, d)
    /\ poly.status = "failed" =>
          \A d \in 1..max_degree : ~ PolyPasses(input, d)
    /\ rec.status = "verified" =>
          /\ RecPasses(input, rec.degree)
          /\ \A k \in 1..(rec.degree - 1) : ~ RecPasses(input, k)
    /\ rec.status = "failed" =>
          \A k \in 1..max_depth : ~ RecPasses(input, k)
    /\ (input.terms = Squares /\ poly # NotRun) =>
          /\ poly.status = "verified"
          /\ poly.degree = 2
          /\ poly.coeffs = <<1, 0, 0>>
          /\ PolyGate(input, 1)
          /\ PolyCandidate(input, 1) = <<9, -15>>
          /\ ~ PolyPasses(input, 1)

\* the squares, tested by the polynomial tester
C4_Witness ==
    /\ input.terms = Squares
    /\ poly.status = "verified"
    /\ rec.status = "verified"

\* C5: a verified rational function has a non-zero denominator at every
\* index 1..n and reproduces every term within 1e-9.
C5_RationalVerifiedOnAllTerms ==
    rat.status = "verified" =>
        \A i \in 1..Len_ :
            LET q_val == PolyEval(rat.q_coeffs, i)
                p_val == PolyEval(rat.p_coeffs, i)
                d == Abs(p_val - input.terms[i] * q_val)
            IN  /\ q_val # 0
                /\ (d = 0 \/ IntTol <= Abs(q_val) \div d)

\* a verified rational function
C5_Witness ==
    /\ rat.status = "verified"
    /\ Len_ >= 4

\* C6: on a sequence of length 0 or 1 every tester returns failed, without
\* raising and without attempting a fit.
C6_ShortSequencesFail ==
    Len_ <= 1 =>
        \A t \in Testers :
            results[t] # NotRun =>
                results[t].status = "failed" /\ results[t].fits = 0

\* a sequence of length 1 that all four testers were called on
C6_Witness ==
    /\ Len_ = 1
    /\ \A t \in Testers : results[t] # NotRun

\* C7: on a sequence with a term too large for the native numeric type the
\* polynomial tester returns failed; no error of the fit reaches the caller.
C7_OversizeFails ==
    (input.big # 0 /\ poly # NotRun) => poly.status = "failed"


\* ========================================================================
\* Properties of the orchestrator (specification SpecOrch)
\* ========================================================================
TimedOut(t) == task[t].st = "timedout"

\* C8: a tester that does not complete within TEST_TIMEOUT_SEC gets its error
\* result from run_test_with_timeout without waiting for the tester to end:
\* once the timeout has fired, the call can return, whether or not the tester
\* is still running (stated of the code, this fails: the return waits for
\* the worker thread)
C8_TimeoutReturnsWithoutWaiting ==
    \A t \in DOMAIN task : TimedOut(t) => ENABLED RunTestExit(t)

\* rank of a label in the order polynomial, recurrence, exponential, rational
Rank(label) ==
    CASE label = "polynomial" -> 1
      [] label = "linear_recurrence" -> 2
      [] label = "exponential" -> 3
      [] label = "rational_function" -> 4

ReportComplete == phase = "report" /\ rpos > Len(tests_plan)

\* C9: the outcomes of a sequence are reported in the fixed order
\* polynomial, recurrence, exponential, rational, and what is reported for
\* an entry is what its own task produced, in whatever order the tasks
\* completed (stated of the code, this fails: the order is that of
\* ENABLE_TESTS, and two entries with one label share one slot of results)
C9_FixedReportOrder ==
    /\ \A i, j \in 1..Len(log) : i < j => Rank(log[i][1]) <= Rank(log[j][1])
    /\ \A i \in 1..Len(log) : log[i][2] = task[i].res

DistinctLabels ==
    \A i, j \in 1..Len(tests_plan) : i # j => tests_plan[i] # tests_plan[j]

SumOver(f) ==
    LET RECURSIVE S(_)
        S(D) == IF D = {} THEN 0
                ELSE LET l == CHOOSE x \in D : TRUE IN f[l] + S(D \ {l})
    IN  S(DOMAIN f)

\* C10: a tester that raises or fails affects only its own outcome, and no
\* exception stops the loop: (a) no exception leaves main(), and main() can
\* always take a step until it is done; (b) a tester that raised is given
\* the status "error"; (c) once the tests of a sequence run, every entry of
\* the plan has its task; (d) the outcomes are reported entry by entry in
\* the order of the plan, all of them before the sequence is finished, each
\* with the status of its own task when the labels are distinct; (e) every
\* candidate before the current one was processed or could not be fetched
C10_FailureIsolation ==
    /\ phase # "crashed"
    /\ phase = "done" \/ ENABLED OrchNext
    /\ \A t \in DOMAIN task :
          /\ task[t].out = "raised" => task[t].res = "error"
          /\ task[t].out = "failed" => task[t].res = "failed"
    /\ phase \in {"collect", "report"} => Len(task) = Len(tests_plan)
    /\ phase = "report" =>
          /\ Len(log) = rpos - 1
          /\ \A i \in 1..Len(log) : log[i][1] = tests_plan[i]
          /\ DistinctLabels => \A i \in 1..Len(log) : log[i][2] = task[i].res
    /\ phase = "fetch" =>
          totals.candidates_processed + totals.fetch_failed = idx - 1
    /\ (phase = "done" /\ tests_plan # <<>>) =>
          totals.candidates_processed + totals.fetch_failed = NumCandidates
    /\ phase \in {"fetch", "collect", "report"} =>
          SumOver(totals.errors_by_test) + SumOver(totals.verified_by_test)
              <= Len(tests_plan) * totals.fetch_success

\* the last candidate has been reported in full with one tester that raised,
\* one that failed and one that verified, after a call of
\* create_pr_for_finding raised, the candidate before it having been processed
C10_Witness ==
    /\ ReportComplete
    /\ idx = NumCandidates
    /\ totals.candidates_processed = NumCandidates - 1
    /\ \E t, u, v \in DOMAIN task :
          /\ task[t].out = "raised" /\ log[t][2] = "error"
          /\ task[u].out = "failed" /\ log[u][2] = "failed"
          /\ task[v].out = "verified" /\ log[v][2] = "verified"
    /\ pr.raised >= 1

\* the step of main() that skips a candidate: the loop moves on from the
\* fetch without having submitted a test
SkipsCandidate == phase = "fetch" /\ idx' = idx + 1

\* C11: a candidate without data is not tested: the step that skips it
\* invokes no tester (no task is created), publishes nothing, leaves every
\* counter but fetch_failed as it was and raises fetch_failed by one
C11_NoDataIsNotTested ==
    [][SkipsCandidate =>
          /\ task' = <<>> /\ task = <<>>
          /\ pr' = pr
          /\ log' = log
          /\ phase' = "fetch"
          /\ totals' = [totals EXCEPT !.fetch_failed = @ + 1]]_vars

\* the first candidate has been skipped for lack of data
C11_Witness ==
    /\ phase = "fetch"
    /\ idx = 2
    /\ totals.fetch_failed = 1
    /\ totals.fetch_success = 0
    /\ totals.candidates_processed = 0

\* the entry of the plan being reported belongs to a tester that returned
\* status 'verified' for the current sequence
VerifiedNow ==
    /\ phase = "report"
    /\ rpos \in 1..Len(tests_plan)
    /\ \E t \in DOMAIN task :
          tests_plan[t] = tests_plan[rpos] /\ task[t].out = "verified"

\* C25: the reporting sink is called only for a verified result and only
\* when DRY_RUN is false: a step that calls create_pr_for_finding is a step
\* of the reporting loop on an entry whose tester returned 'verified', with
\* DRY_RUN false; and verified_total grows only on such an entry, never for
\* a failed result, an error, a timeout or a missing result
C25_PublishOnlyVerifiedNotDryRun ==
    [][/\ pr' # pr => (VerifiedNow /\ ~DRY_RUN /\ pr'.calls = pr.calls + 1)
       /\ (phase \in {"fetch", "collect", "report"}
           /\ totals'.verified_total # totals.verified_total)
              => (VerifiedNow
                  /\ totals'.verified_total = totals.verified_total + 1)]_vars

\* a sequence reported in full without dry run: one result verified and
\* published, one failed and one timed out, neither of which was published
C25_Witness ==
    /\ ReportComplete
    /\ ~DRY_RUN
    /\ totals.verified_total = 1
    /\ pr.calls = 1
    /\ \E t, u, v \in DOMAIN task :
          /\ task[t].out = "verified" /\ log[t][2] = "verified"
          /\ task[u].out = "failed" /\ log[u][2] = "failed"
          /\ task[v].out = "timeout" /\ log[v][2] = "error"

\* C28: for each analyzed sequence a tester's verified outcome is counted
\* and published at most once, whatever ENABLE_TESTS contains: no two
\* reported entries of one sequence carry the same label with status
\* 'verified' (stated of the code, this fails: tests_plan keeps one entry
\* per key, so a tester listed under two keys is reported twice)
C28_CountedOncePerTester ==
    \A i, j \in 1..Len(log) :
        (i # j /\ log[i][2] = "verified" /\ log[j][2] = "verified")
            => log[i][1] # log[j][1]

\* ---------------------------------------------------------------------
\* fetch_sequence_data_with_retries and the disk cache
\* (src/main_analyzer.py, lines 120-172)
\* ---------------------------------------------------------------------

MaxRetries == 3
MaxAge == 3
MaxInvocations == 2

\* FETCH_RETRY_BASE_SLEEP (a float, at least 0.0) in a unit that makes it an
\* integer
BaseSleeps == {0, 1, 3}

\* non-empty term lists a b-file can hold
DataValues == {PyList(<<1, 2>>), PyList(<<7>>)}

\* what one call of fetch_b_file_data can do: return a list (possibly
\* empty), return None, or raise
ProviderReplies ==
    DataValues \cup {PyList(<<>>), PyNone, [kind |-> "raises", val |-> <<>>]}

\* the environment values main_analyzer.py reads at import
FetchConfigs ==
    [CACHE_ENABLED : BOOLEAN,
     MAX_FETCH_RETRIES : 1..MaxRetries,
     FETCH_RETRY_BASE_SLEEP : BaseSleeps,
     CACHE_TTL_HOURS : 1..(MaxAge - 1)]

\* the cache files earlier runs can have left: none, one written by
\* save_to_cache (non-empty data), or one cut short while being written
CacheFiles ==
    {NoFile}
        \cup [state : {"json"}, age : 0..MaxAge, val : {d.val : d \in DataValues}]
        \cup [state : {"corrupt"}, age : 0..MaxAge, val : {<<>>}]

\* Python truth of a provider reply that was returned
Truthy(d) == d.kind = "list" /\ d.val # <<>>

\* load_from_cache with the TTL test left out
load_from_cache_NoTTL(c, file) ==
    IF ~c.CACHE_ENABLED THEN [value |-> PyNone, ops |-> <<>>]
    ELSE IF file.state = "absent" THEN [value |-> PyNone, ops |-> <<"exists">>]
    ELSE IF file.state = "corrupt"
        THEN [value |-> PyNone, ops |-> <<"exists", "getmtime", "open_r">>]
    ELSE [value |-> PyList(file.val), ops |-> <<"exists", "getmtime", "open_r">>]

\* load_from_cache: the value returned and the file accesses made
load_from_cache(c, file) ==
    IF ~c.CACHE_ENABLED THEN [value |-> PyNone, ops |-> <<>>]
    ELSE IF file.state = "absent" THEN [value |-> PyNone, ops |-> <<"exists">>]
    ELSE IF file.age > c.CACHE_TTL_HOURS
        THEN [value |-> PyNone, ops |-> <<"exists", "getmtime">>]
    ELSE IF file.state = "corrupt"
        THEN [value |-> PyNone, ops |-> <<"exists", "getmtime", "open_r">>]
    ELSE [value |-> PyList(file.val), ops |-> <<"exists", "getmtime", "open_r">>]

\* how a write of the cache file can end
WriteOutcomes == {"written", "open_fails", "dump_fails"}

\* save_to_cache: the file left behind and the accesses made; every
\* exception is swallowed
save_to_cache(c, file, data, outcome) ==
    IF ~c.CACHE_ENABLED THEN [file |-> file, ops |-> <<>>]
    ELSE IF outcome = "open_fails"
        THEN [file |-> file, ops |-> <<"makedirs">>]
    ELSE IF outcome = "dump_fails"
        THEN [file |-> [state |-> "corrupt", age |-> 0, val |-> <<>>],
              ops |-> <<"makedirs", "open_w">>]
    ELSE [file |-> [state |-> "json", age |-> 0, val |-> data.val],
          ops |-> <<"makedirs", "open_w">>]

\* the delay computed after failed attempt j (line 165)
sleep_s(c, j) == c.FETCH_RETRY_BASE_SLEEP * (2 ^ (j - 1))

FetchInit ==
    /\ input = <<>>
    /\ results = [t \in Testers |-> NotRun]
    /\ OrchIdle
    /\ cfg \in FetchConfigs
    /\ cache \in CacheFiles
    /\ fpc = "idle"
    /\ attempt = 0
    /\ provider_calls = 0
    /\ cache_ops = <<>>
    /\ sleeps = <<>>
    /\ ret = PyNone
    /\ invocations = 0
    /\ ReportIdle
    /\ CandIdle

\* lines 148-155: the cache is consulted first; a hit returns, a miss enters
\* the retry loop
Lookup ==
    /\ fpc = "idle"
    /\ invocations < MaxInvocations
    /\ invocations' = invocations + 1
    /\ LET cached == load_from_cache(cfg, cache) IN
        /\ cache_ops' = cached.ops
        /\ IF cached.value # PyNone
            THEN /\ ret' = cached.value
                 /\ fpc' = "returned"
                 /\ attempt' = 0
            ELSE /\ ret' = PyNone
                 /\ fpc' = "attempt"
                 /\ attempt' = 1
    /\ provider_calls' = 0
    /\ sleeps' = <<>>
    /\ UNCHANGED <<cfg, cache, testerVars, orchVars, reportVars, candVars>>

\* lines 156-164: one call of the provider; truthy data is saved and
\* returned, anything else is a failed attempt
Attempt(reply, outcome) ==
    /\ fpc = "attempt"
    /\ provider_calls' = provider_calls + 1
    /\ IF reply.kind # "raises" /\ Truthy(reply)
        THEN LET saved == save_to_cache(cfg, cache, reply, outcome) IN
             /\ cache' = saved.file
             /\ cache_ops' = cache_ops \o saved.ops
             /\ ret' = reply
             /\ fpc' = "returned"
        ELSE /\ fpc' = "sleep"
             /\ UNCHANGED <<cache, cache_ops, ret>>
    /\ UNCHANGED <<cfg, attempt, sleeps, invocations, testerVars, orchVars,
                   reportVars, candVars>>

\* lines 165-168: the warning "Retrying in ..." and the sleep
Sleep ==
    /\ fpc = "sleep"
    /\ sleeps' = Append(sleeps, sleep_s(cfg, attempt))
    /\ fpc' = "slept"
    /\ UNCHANGED <<cfg, cache, attempt, provider_calls, cache_ops, ret,
                   invocations, testerVars, orchVars, reportVars, candVars>>

\* line 155 with a range that is one too long
NextAttempt_OneMore ==
    /\ fpc = "slept"
    /\ attempt <= cfg.MAX_FETCH_RETRIES
    /\ attempt' = attempt + 1
    /\ fpc' = "attempt"
    /\ UNCHANGED <<cfg, cache, provider_calls, cache_ops, sleeps, ret,
                   invocations, testerVars, orchVars, reportVars, candVars>>

\* line 155: the loop goes on to the next attempt
NextAttempt ==
    /\ fpc = "slept"
    /\ attempt < cfg.MAX_FETCH_RETRIES
    /\ attempt' = attempt + 1
    /\ fpc' = "attempt"
    /\ UNCHANGED <<cfg, cache, provider_calls, cache_ops, sleeps, ret,
                   invocations, testerVars, orchVars, reportVars, candVars>>

\* lines 170-172: the loop is exhausted
GiveUp ==
    /\ fpc = "slept"
    /\ attempt >= cfg.MAX_FETCH_RETRIES
    /\ ret' = PyNone
    /\ fpc' = "returned"
    /\ UNCHANGED <<cfg, cache, attempt, provider_calls, cache_ops, sleeps,
                   invocations, testerVars, orchVars, reportVars, candVars>>

\* an hour passes between two invocations
TimePasses ==
    /\ fpc = "returned"
    /\ cache.state # "absent"
    /\ cache.age < MaxAge
    /\ cache' = [cache EXCEPT !.age = @ + 1]
    /\ UNCHANGED <<cfg, fpc, attempt, provider_calls, cache_ops, sleeps, ret,
                   invocations, testerVars, orchVars, reportVars, candVars>>

\* the function is called again for the same identifier
CallAgain ==
    /\ fpc = "returned"
    /\ invocations < MaxInvocations
    /\ fpc' = "idle"
    /\ attempt' = 0
    /\ provider_calls' = 0
    /\ cache_ops' = <<>>
    /\ sleeps' = <<>>
    /\ ret' = PyNone
    /\ UNCHANGED <<cfg, cache, invocations, testerVars, orchVars, reportVars,
                   candVars>>

FetchNext ==
    \/ Lookup
    \/ \E reply \in ProviderReplies, outcome \in WriteOutcomes :
          Attempt(reply, outcome)
    \/ Sleep
    \/ NextAttempt
    \/ GiveUp
    \/ TimePasses
    \/ CallAgain

SpecFetch == FetchInit /\ [][FetchNext]_vars

\* the step opens the cache file for writing
CacheWriteStep ==
    /\ Len(cache_ops') > Len(cache_ops)
    /\ cache_ops'[Len(cache_ops')] = "open_w"

\* the only change of the cache file is that it grew an hour older
CacheAged ==
    cache' = [cache EXCEPT !.age = @ + 1]

\* C21: the cache only holds and serves usable data. The cache file is
\* written only in a step where the provider was called and returned
\* non-empty data, and what is stored is that data; a value is returned from
\* the cache only when the entry is readable and not older than
\* CACHE_TTL_HOURS; an expired or unreadable entry leads to a fetch attempt;
\* and with CACHE_ENABLED false the cache is neither accessed nor changed.
C21_CacheHoldsServesUsableData ==
    [][/\ (CacheWriteStep \/ (cache' # cache /\ ~CacheAged))
            => /\ CacheWriteStep
               /\ cfg.CACHE_ENABLED
               /\ fpc = "attempt"
               /\ provider_calls' = provider_calls + 1
               /\ Truthy(ret')
               /\ cache'.state = "json" => PyList(cache'.val) = ret'
               /\ cache'.state # "absent"
       /\ (fpc = "idle" /\ fpc' = "returned")
            => /\ cfg.CACHE_ENABLED
               /\ cache.state = "json"
               /\ cache.age <= cfg.CACHE_TTL_HOURS
               /\ ret' = PyList(cache.val)
               /\ Truthy(ret')
       /\ (fpc = "idle" /\ fpc' # "idle"
           /\ (cache.state = "corrupt" \/ cache.age > cfg.CACHE_TTL_HOURS))
            => (fpc' = "attempt" /\ provider_calls' = 0)
       /\ (fpc \in {"idle", "attempt"} /\ ~cfg.CACHE_ENABLED)
            => (cache_ops' = <<>> /\ cache' = cache)]_vars

\* a second invocation found the entry of the first one expired, fetched
\* again and stored the new data
C21_Witness ==
    /\ fpc = "returned"
    /\ invocations = 2
    /\ cache_ops = <<"exists", "getmtime", "makedirs", "open_w">>
    /\ provider_calls = 2
    /\ cache.state = "json"
    /\ PyList(cache.val) = ret
    /\ ret = PyList(<<7>>)

\* C22: the delay slept after failed attempt j is
\* FETCH_RETRY_BASE_SLEEP * 2^(j-1), and every delay is followed by another
\* attempt: once the function has slept, attempts remain, so it never sleeps
\* after the final failed attempt.
C22_BackoffThenRetry ==
    /\ \A j \in 1..Len(sleeps) :
          sleeps[j] = cfg.FETCH_RETRY_BASE_SLEEP * (2 ^ (j - 1))
    /\ fpc = "slept" => attempt < cfg.MAX_FETCH_RETRIES

\* ---------------------------------------------------------------------
\* create_pr_for_finding (src/core/reporting.py, lines 26-125)
\* ---------------------------------------------------------------------

\* the environment variable is not set
Unset == <<"<unset>">>

\* values of GITHUB_REPOSITORY, as sequences of characters
RepoValues ==
    {Unset, <<>>, <<"o">>, <<"o", "/", "r">>, <<"o", "/">>, <<"/", "r">>,
     <<"/">>, <<"o", "/", "r", "/", "x">>}

\* str.split('/')
RECURSIVE split(_)
split(s) ==
    IF \A i \in 1..Len(s) : s[i] # "/" THEN <<s>>
    ELSE LET i == CHOOSE k \in 1..Len(s) :
                     s[k] = "/" /\ \A j \in 1..(k - 1) : s[j] # "/"
         IN <<SubSeq(s, 1, i - 1)>> \o split(SubSeq(s, i + 1, Len(s)))

\* how one HTTP request can end: a 2xx reply, a 2xx reply whose body lacks
\* the expected fields, an error status (raise_for_status), no reply
HttpOutcomes == {"ok", "bad_body", "http_error", "connection_error"}

\* the outcomes that raise requests.RequestException
RequestException == {"http_error", "connection_error"}

ReportInit ==
    /\ input = <<>>
    /\ results = [t \in Testers |-> NotRun]
    /\ OrchIdle
    /\ FetchIdle
    /\ env \in [GITHUB_REPOSITORY : RepoValues, GITHUB_TOKEN : BOOLEAN]
    /\ step = "check_repository"
    /\ requests = <<>>
    /\ escaped = "none"
    /\ CandIdle

\* lines 35-44: the repository name is required and must unpack into
\* owner and repo
CheckRepository ==
    /\ step = "check_repository"
    /\ IF env.GITHUB_REPOSITORY \in {Unset, <<>>}
          \/ Len(split(env.GITHUB_REPOSITORY)) # 2
        THEN step' = "returned"
        ELSE step' = "get_headers"
    /\ UNCHANGED <<env, requests, escaped, testerVars, orchVars, fetchVars,
                   candVars>>

\* line 46 and lines 17-24: _get_headers raises ValueError without a token
GetHeaders ==
    /\ step = "get_headers"
    /\ IF env.GITHUB_TOKEN
        THEN step' = "get_main_sha" /\ escaped' = escaped
        ELSE step' = "raised" /\ escaped' = "ValueError"
    /\ UNCHANGED <<env, requests, testerVars, orchVars, fetchVars, candVars>>

\* lines 73-81: GET the main ref; a RequestException returns, a reply
\* without object.sha raises KeyError
GetMainSha(o) ==
    /\ step = "get_main_sha"
    /\ requests' = Append(requests, [name |-> "get_main_sha", outcome |-> o])
    /\ IF o \in RequestException THEN step' = "returned" /\ escaped' = escaped
       ELSE IF o = "bad_body" THEN step' = "raised" /\ escaped' = "KeyError"
       ELSE step' = "create_branch" /\ escaped' = escaped
    /\ UNCHANGED <<env, testerVars, orchVars, fetchVars, candVars>>

\* lines 83-91: POST the new ref; a failure is logged and ignored
CreateBranch(o) ==
    /\ step = "create_branch"
    /\ requests' = Append(requests, [name |-> "create_branch", outcome |-> o])
    /\ step' = "create_file"
    /\ UNCHANGED <<env, escaped, testerVars, orchVars, fetchVars, candVars>>

\* lines 93-107: PUT the report file; a failure returns
CreateFile(o) ==
    /\ step = "create_file"
    /\ requests' = Append(requests, [name |-> "create_file", outcome |-> o])
    /\ IF o \in RequestException THEN step' = "returned"
       ELSE step' = "open_pull_request"
    /\ UNCHANGED <<env, escaped, testerVars, orchVars, fetchVars, candVars>>

\* lines 109-125: POST the pull request; the handler calls e.json(), which
\* a RequestException does not have, and a body that is not a JSON object
\* has no .get
OpenPullRequest(o) ==
    /\ step = "open_pull_request"
    /\ requests' = Append(requests, [name |-> "open_pull_request", outcome |-> o])
    /\ IF o = "ok" THEN step' = "returned" /\ escaped' = escaped
       ELSE step' = "raised" /\ escaped' = "AttributeError"
    /\ UNCHANGED <<env, testerVars, orchVars, fetchVars, candVars>>

ReportNext ==
    \/ CheckRepository
    \/ GetHeaders
    \/ \E o \in HttpOutcomes : GetMainSha(o)
    \/ \E o \in HttpOutcomes \ {"bad_body"} : CreateBranch(o)
    \/ \E o \in HttpOutcomes \ {"bad_body"} : CreateFile(o)
    \/ \E o \in HttpOutcomes : OpenPullRequest(o)

SpecReport == ReportInit /\ [][ReportNext]_vars

\* the order of the GitHub steps
GitHubSteps == <<"get_main_sha", "create_branch", "create_file", "open_pull_request">>

\* the request did not succeed
RequestFailed(r) == r.outcome # "ok"

\* the value is not of the form 'owner/repo'
Malformed(repo) ==
    \/ Len(split(repo)) # 2
    \/ \E i \in 1..Len(split(repo)) : split(repo)[i] = <<>>

\* C24: the requests are sent in the order get-main-SHA, create-branch,
\* create-file, open-pull-request; a pull request is opened only after the
\* SHA retrieval and the file creation succeeded; a failed SHA retrieval or
\* file creation is the last request; a missing or malformed
\* GITHUB_REPOSITORY means no request at all; and a failed branch creation
\* alone is followed by the file creation.
C24_PullRequestStepsInOrder ==
    /\ Len(requests) <= Len(GitHubSteps)
    /\ \A i \in 1..Len(requests) : requests[i].name = GitHubSteps[i]
    /\ Len(requests) = 4 => (~RequestFailed(requests[1]) /\ ~RequestFailed(requests[3]))
    /\ (Len(requests) >= 1 /\ RequestFailed(requests[1])) => Len(requests) = 1
    /\ (Len(requests) >= 3 /\ RequestFailed(requests[3])) => Len(requests) = 3
    /\ (env.GITHUB_REPOSITORY = Unset \/ Malformed(env.GITHUB_REPOSITORY))
          => requests = <<>>
    /\ (step \in {"returned", "raised"} /\ Len(requests) >= 2
        /\ RequestFailed(requests[2])) => Len(requests) >= 3

\* ---------------------------------------------------------------------
\* data/candidate_sequences.json: run_target_finder.main
\* (src/run_target_finder.py, lines 39-91) and the loading and
\* normalisation of main_analyzer.main (src/main_analyzer.py, lines 227-260)
\* ---------------------------------------------------------------------

MaxEntries == 2
MaxFound == 2
MaxFinderRuns == 2

\* strings are sequences of characters
Digits == {"0", "1", "2", "3", "4", "5", "6", "7", "8", "9"}
Whitespace == {" ", "\n", "\t"}

\* the identifiers find_candidate_sequences can return (f"A{number:06d}")
FoundIds ==
    {<<"A", "0", "0", "0", "0", "4", "5">>,
     <<"A", "0", "0", "0", "1", "0", "8">>,
     <<"A", "0", "0", "0", "0", "0", "2">>}

\* the strings a stored entry can hold: identifiers the finder wrote, the
\* same with white space around, a hand-written short one, and strings that
\* are no identifier
FileStrings ==
    {<<"A", "0", "0", "0", "0", "4", "5">>,
     <<"A", "0", "0", "0", "1", "0", "8">>,
     <<" ", "A", "0", "0", "0", "0", "4", "5", "\n">>,
     <<"A", "1", "2", "3">>,
     <<"A", "1", "2">>,
     <<"B", "0", "0", "1">>}

\* JSON items of the file: a string, a dict with the key 'oeis_id', and
\* anything else (a number, null, a dict without that key)
StrEntry(s) == [kind |-> "str", oeis_id |-> s, comment |-> ""]
DictEntry(s, c) == [kind |-> "dict", oeis_id |-> s, comment |-> c]
OtherEntry == [kind |-> "other", oeis_id |-> <<>>, comment |-> ""]

FileEntries ==
    {StrEntry(s) : s \in FileStrings}
        \cup {DictEntry(s, "Found via search") : s \in FoundIds}
        \cup {DictEntry(<<"A", "1", "2", "3">>, "Legacy entry."), OtherEntry}

\* the key of the dict shape the analyzer accepts
CandidatesKey == <<"c", "a", "n", "d", "i", "d", "a", "t", "e", "s">>

\* contents of data/candidate_sequences.json: no file, a file that is not
\* JSON, a JSON list, a JSON dict with one key, any other JSON value
JsonList(items) ==
    [state |-> "json", shape |-> "list", key |-> <<>>, items |-> items]
CandidateFiles ==
    {[state |-> "absent", shape |-> "none", key |-> <<>>, items |-> <<>>],
     [state |-> "corrupt", shape |-> "none", key |-> <<>>, items |-> <<>>],
     [state |-> "json", shape |-> "other", key |-> <<>>, items |-> <<>>]}
        \cup {JsonList(items) :
                items \in UNION {[1..n -> FileEntries] : n \in 0..MaxEntries}}
        \cup {[state |-> "json", shape |-> "dict", key |-> k, items |-> <<e>>] :
                k \in {CandidatesKey, <<"i", "d", "s">>},
                e \in {StrEntry(s) : s \in FileStrings}}

\* str.strip()
RECURSIVE strip(_)
strip(s) ==
    IF s = <<>> THEN s
    ELSE IF Head(s) \in Whitespace THEN strip(Tail(s))
    ELSE IF s[Len(s)] \in Whitespace THEN strip(SubSeq(s, 1, Len(s) - 1))
    ELSE s

\* is_valid_oeis_id: re.fullmatch(r"A\d{3,}", s.strip())
is_valid_oeis_id(s) ==
    LET t == strip(s) IN
        /\ Len(t) >= 4
        /\ t[1] = "A"
        /\ \A i \in 2..Len(t) : t[i] \in Digits

\* run_target_finder.main, lines 39-57: the stored entries as dicts; a
\* string becomes a legacy dict, a dict with 'oeis_id' is kept, anything
\* else is dropped
RECURSIVE NormalizeExisting(_)
NormalizeExisting(loaded_data) ==
    IF loaded_data = <<>> THEN <<>>
    ELSE LET item == Head(loaded_data)
             rest == NormalizeExisting(Tail(loaded_data))
         IN IF item.kind = "str"
                THEN <<DictEntry(item.oeis_id, "Legacy entry.")>> \o rest
            ELSE IF item.kind = "dict" THEN <<item>> \o rest
            ELSE rest

\* what `for item in loaded_data` goes through: the items of a list, the
\* keys of a dict
LoadedItems(f) ==
    IF f.state # "json" THEN <<>>
    ELSE IF f.shape = "list" THEN f.items
    ELSE IF f.shape = "dict" THEN <<StrEntry(f.key)>>
    ELSE <<>>

\* lines 68-77 without the test against existing_ids
RECURSIVE AppendNew_AlwaysAppend(_, _)
AppendNew_AlwaysAppend(existing_candidates, new_candidate_ids) ==
    IF new_candidate_ids = <<>> THEN existing_candidates
    ELSE AppendNew_AlwaysAppend(
             Append(existing_candidates,
                    DictEntry(Head(new_candidate_ids), "Found via search")),
             Tail(new_candidate_ids))

\* lines 68-77: the new identifiers not yet in existing_ids are appended
RECURSIVE AppendNew(_, _)
AppendNew(existing_candidates, new_candidate_ids) ==
    IF new_candidate_ids = <<>> THEN existing_candidates
    ELSE LET oeis_id == Head(new_candidate_ids) IN
         IF \E i \in 1..Len(existing_candidates) :
                existing_candidates[i].oeis_id = oeis_id
            THEN AppendNew(existing_candidates, Tail(new_candidate_ids))
            ELSE AppendNew(Append(existing_candidates,
                                  DictEntry(oeis_id, "Found via search")),
                           Tail(new_candidate_ids))

\* main_analyzer.main, lines 244-257, without the `seen` test
RECURSIVE Normalize_NoSeen(_, _)
Normalize_NoSeen(candidate_ids, acc) ==
    IF candidate_ids = <<>> THEN acc
    ELSE LET cid == Head(candidate_ids) IN
         IF cid.kind # "str" \/ ~is_valid_oeis_id(strip(cid.oeis_id))
            THEN Normalize_NoSeen(Tail(candidate_ids), acc)
            ELSE Normalize_NoSeen(Tail(candidate_ids),
                                  Append(acc, strip(cid.oeis_id)))

\* main_analyzer.main, lines 244-257: entries that are not strings are
\* skipped, strings are stripped, invalid and repeated ones are skipped;
\* acc is normalized_ids so far (seen holds the same identifiers)
RECURSIVE Normalize(_, _)
Normalize(candidate_ids, acc) ==
    IF candidate_ids = <<>> THEN acc
    ELSE LET cid == Head(candidate_ids) IN
         IF cid.kind # "str" \/ ~is_valid_oeis_id(strip(cid.oeis_id))
            THEN Normalize(Tail(candidate_ids), acc)
         ELSE IF \E i \in 1..Len(acc) : acc[i] = strip(cid.oeis_id)
            THEN Normalize(Tail(candidate_ids), acc)
         ELSE Normalize(Tail(candidate_ids), Append(acc, strip(cid.oeis_id)))

\* main_analyzer.main, lines 229-242: the list the analyzer goes through
candidate_ids(f) ==
    IF f.state # "json" THEN <<>>
    ELSE IF f.shape = "list" THEN f.items
    ELSE IF f.shape = "dict" /\ f.key = CandidatesKey THEN f.items
    ELSE <<>>

CandInit ==
    /\ input = <<>>
    /\ results = [t \in Testers |-> NotRun]
    /\ OrchIdle
    /\ FetchIdle
    /\ ReportIdle
    /\ candidates_file \in CandidateFiles
    /\ finder = [runs |-> 0, prev |-> candidates_file, found |-> <<>>,
                 saved |-> FALSE]
    /\ apc = "idle"
    /\ normalized_ids = <<>>
    /\ analyzed = <<>>

\* one run of run_target_finder.main: the search returned new_candidate_ids
\* and the write of the file ended with outcome. A JSON value that cannot
\* be iterated raises TypeError before the search; no new candidates
\* returns before the save.
FinderMain(new_candidate_ids, outcome) ==
    /\ apc = "idle"
    /\ finder.runs < MaxFinderRuns
    /\ LET crashed == candidates_file.state = "json"
                         /\ candidates_file.shape = "other"
           combined == AppendNew(NormalizeExisting(LoadedItems(candidates_file)),
                                 new_candidate_ids)
           saves == ~crashed /\ new_candidate_ids # <<>>
                        /\ outcome # "open_fails"
       IN /\ candidates_file' =
                IF ~saves THEN candidates_file
                ELSE IF outcome = "dump_fails"
                    THEN [state |-> "corrupt", shape |-> "none", key |-> <<>>,
                          items |-> <<>>]
                ELSE JsonList(combined)
          /\ finder' = [runs |-> finder.runs + 1, prev |-> candidates_file,
                        found |-> IF crashed THEN <<>> ELSE new_candidate_ids,
                        saved |-> saves /\ outcome = "written"]
    /\ UNCHANGED <<apc, normalized_ids, analyzed, testerVars, orchVars,
                   fetchVars, reportVars>>

\* main_analyzer.main, lines 227-260: the file is loaded and normalised; a
\* missing or unreadable file or an unexpected JSON value ends the run
AnalyzerLoad ==
    /\ apc = "idle"
    /\ IF candidates_file.state # "json" \/ candidates_file.shape = "other"
        THEN apc' = "done" /\ normalized_ids' = <<>>
        ELSE /\ apc' = "analyze"
             /\ normalized_ids' = Normalize(candidate_ids(candidates_file), <<>>)
    /\ UNCHANGED <<candidates_file, finder, analyzed, testerVars, orchVars,
                   fetchVars, reportVars>>

\* main_analyzer.main, lines 285-290: the analysis of the next identifier of
\* normalized_ids begins (it is fetched, then tested)
Analyze ==
    /\ apc = "analyze"
    /\ Len(analyzed) < Len(normalized_ids)
    /\ analyzed' = Append(analyzed, normalized_ids[Len(analyzed) + 1])
    /\ UNCHANGED <<candidates_file, finder, apc, normalized_ids, testerVars,
                   orchVars, fetchVars, reportVars>>

\* the loop over normalized_ids is over
AnalyzerDone ==
    /\ apc = "analyze"
    /\ Len(analyzed) = Len(normalized_ids)
    /\ apc' = "done"
    /\ UNCHANGED <<candidates_file, finder, normalized_ids, analyzed,
                   testerVars, orchVars, fetchVars, reportVars>>

CandNext ==
    \/ \E n \in 0..MaxFound : \E ids \in [1..n -> FoundIds] :
          \E outcome \in WriteOutcomes : FinderMain(ids, outcome)
    \/ AnalyzerLoad
    \/ Analyze
    \/ AnalyzerDone

SpecCandidates == CandInit /\ [][CandNext]_vars

\* the positions of the loaded list holding the string that strips to id
Occurrences(id) ==
    LET c == candidate_ids(candidates_file) IN
        {i \in 1..Len(c) : c[i].kind = "str" /\ strip(c[i].oeis_id) = id}

\* the position of the first occurrence
FirstOccurrence(id) ==
    CHOOSE i \in Occurrences(id) : \A j \in Occurrences(id) : i <= j

\* 'A' followed by at least three digits, nothing else
WellFormedId(s) ==
    /\ Len(s) >= 4
    /\ s[1] = "A"
    /\ \A i \in 2..Len(s) : s[i] \in Digits

StoredEntries(f) ==
    IF f.state = "json" /\ f.shape = "list"
        THEN SelectSeq(f.items, LAMBDA e : e.kind \in {"str", "dict"})
        ELSE <<>>

C27_FinderOutputIsAnalyzed ==
    (finder.saved /\ apc = "done") =>
        \A i \in 1..Len(candidates_file.items) :
            WellFormedId(candidates_file.items[i].oeis_id)
                => \E k \in 1..Len(analyzed) :
                      analyzed[k] = candidates_file.items[i].oeis_id

\* C16: create_pr_for_finding never raises because of a failed HTTP request:
\* whenever one of its requests has failed (an error status or no reply),
\* no exception has left the function.
C16_HttpFailureNeverRaises ==
    (\E i \in 1..Len(requests) : requests[i].outcome \in RequestException)
        => (escaped = "none" /\ step # "raised")

\* the cache holds a readable entry that is not older than CACHE_TTL_HOURS
FreshEntry == cache.state = "json" /\ cache.age <= cfg.CACHE_TTL_HOURS

\* what fetch_sequence_data_with_retries does when the cache does not
\* answer: at most MAX_FETCH_RETRIES calls of the provider; a call that
\* returns non-empty data ends the loop and that data is returned; a call
\* that raises or returns an empty list or None is a failed attempt; None is
\* returned only after exactly MAX_FETCH_RETRIES failed attempts
RetryContract ==
    /\ provider_calls' <= cfg.MAX_FETCH_RETRIES
    /\ provider_calls' = provider_calls + 1
          => \/ fpc' = "returned" /\ ret' \in DataValues
             \/ fpc' = "sleep" /\ ret' = PyNone
    /\ (fpc = "returned" /\ fpc' = "returned")
          => provider_calls' = provider_calls
    /\ (fpc' = "returned" /\ ret' # PyNone /\ provider_calls' > 0)
          => Len(sleeps') = provider_calls' - 1
    /\ (fpc' = "returned" /\ ret' = PyNone)
          => /\ provider_calls' = cfg.MAX_FETCH_RETRIES
             /\ Len(sleeps') = cfg.MAX_FETCH_RETRIES

\* C20 as stated: when a fresh cache entry exists the provider is not
\* called (the entry is returned); otherwise the retry contract holds.
C20_FreshEntryMeansNoCall ==
    [][/\ (fpc = "idle" /\ FreshEntry)
            => (fpc' = "returned" /\ provider_calls' = 0
                /\ ret' = PyList(cache.val))
       /\ RetryContract]_vars

\* C20 with the cache enabled: when CACHE_ENABLED is true and a fresh cache
\* entry exists the provider is not called (the entry is returned);
\* otherwise, and always when the cache is disabled, the lookup leads to a
\* first attempt and the retry contract holds.
C20_EnabledFreshEntryMeansNoCall ==
    [][/\ (fpc = "idle" /\ FreshEntry /\ cfg.CACHE_ENABLED)
            => (fpc' = "returned" /\ provider_calls' = 0
                /\ ret' = PyList(cache.val))
       /\ (fpc = "idle" /\ ~(FreshEntry /\ cfg.CACHE_ENABLED))
            => (fpc' = "attempt" /\ provider_calls' = 0)
       /\ RetryContract]_vars

\* None was returned after three failed attempts
C20_Witness ==
    /\ fpc = "returned"
    /\ ret = PyNone
    /\ cfg.MAX_FETCH_RETRIES = 3
    /\ provider_calls = 3
    /\ cfg.CACHE_ENABLED
    /\ cache.state = "json"
    /\ cache.age > cfg.CACHE_TTL_HOURS

\* C15: the exponential tester returns 'verified' with A, B, C only if
\* A # 0, B # 1 and A*B^i + C = a(i) in exact integer arithmetic for every
\* index i of the sequence, and returns 'failed' for every sequence of fewer
\* than 5 terms.
C15_ExponentialContract ==
    /\ expo.status = "verified" =>
          /\ expo.A # 0
          /\ expo.B # 1
          /\ input.big = 0
          /\ \A i \in 1..Len_ :
                expo.A * Pow(expo.B, i) + expo.C = input.terms[i]
    /\ (expo.status # "notrun" /\ Len_ < 5) => expo.status = "failed"

\* the powers of two are verified as 1 * 2^n + 0
C15_Witness ==
    /\ expo.status = "verified"
    /\ input.terms = PowersOfTwo
    /\ expo.A = 1 /\ expo.B = 2 /\ expo.C = 0

\* lines 48-61: the matrix and the right-hand side built for the degrees
\* p_deg and q_deg
RatSystem(terms, p_deg, q_deg) ==
    LET fit_points == IMin(Len(terms), p_deg + q_deg + 4) IN
        [M |-> Tup([i \in 1..fit_points |-> RatRow(terms, p_deg, q_deg, i)]),
         b |-> Tup([i \in 1..fit_points |-> terms[i]])]

\* the solver's x is integral and solves M x = b exactly
SolvesExactly(sys, x) ==
    /\ \A j \in 1..Len(x) : QNearInteger(x[j])
    /\ \A r \in 1..Len(sys.M) :
          MatVec(sys.M, Tup([j \in 1..Len(x) |-> RInt(QRound(x[j]))]))[r]
              = RInt(sys.b[r])

\* C17: the system solved and the formula built agree. For all degrees
\* searched and every solution x of M x = b in integers that the solver
\* returns, the P and Q built from x (lines 75-81, the lowest coefficient of
\* Q fixed to 1) satisfy a(i)*Q(i) - P(i) = 0 at every fit point i.
C17_SystemAgreesWithFormula ==
    (rat.status # "notrun" /\ input.big = 0) =>
        \A p_deg \in 0..RatCeiling(Len_), q_deg \in 1..RatCeiling(Len_) :
            LET sys == RatSystem(input.terms, p_deg, q_deg)
                u == p_deg + q_deg + 1
                x == lstsq(sys.M, sys.b, u).coeffs
                p_coeffs == Tup([j \in 1..(p_deg + 1) |-> QRound(x[j])])
                q_coeffs ==
                    Append(Tup([j \in 1..q_deg |-> QRound(x[p_deg + 1 + j])]), 1)
            IN  SolvesExactly(sys, x) =>
                    \A i \in 1..Len(sys.M) :
                        input.terms[i] * PolyEval(q_coeffs, i)
                            - PolyEval(p_coeffs, i) = 0

\* C18: the degree ceiling m is (n-2)//2 exactly when n < 2*max_deg + 2; a
\* negative ceiling returns 'failed'; otherwise 2m + 2 <= n, so no pair
\* (p, q) with p <= m and 1 <= q <= m is skipped by the length check (a
\* search that fails has fitted all (m+1)*m pairs); and sequences of two or
\* three terms fail without any fit.
C18_RationalCeiling ==
    (rat.status # "notrun" /\ input.big = 0) =>
        LET m == RatCeiling(Len_) IN
            /\ Len_ < 2 * rational_max_deg + 2 => m = (Len_ - 2) \div 2
            /\ Len_ >= 2 * rational_max_deg + 2 => m = rational_max_deg
            /\ m < 0 => (rat.status = "failed" /\ rat.fits = 0)
            /\ m >= 0 => 2 * m + 2 <= Len_
            /\ (m >= 0 /\ rat.status = "failed") => rat.fits = (m + 1) * m
            /\ rat.status = "verified" => rat.p_deg + rat.q_deg + 2 <= Len_
            /\ Len_ \in {2, 3} => (rat.status = "failed" /\ rat.fits = 0)

\* four terms: the ceiling is 1 and both pairs (0, 1) and (1, 1) were fitted
C18_Witness ==
    /\ rat.status = "failed"
    /\ input.big = 0
    /\ Len_ = 4
    /\ rat.fits = 2

\* C19: a term outside the signed 64-bit range makes
\* test_rational_conjecture return 'failed' before any system is built.
C19_OversizeRationalFails ==
    (rat.status # "notrun" /\ input.big # 0) =>
        (rat.status = "failed" /\ rat.fits = 0)

\* four terms, one of them too large
C19_Witness ==
    /\ rat.status = "failed"
    /\ input.big # 0
    /\ Len_ = 4

\* C13: on the Fibonacci sequence the recurrence tester rejects depth 1,
\* whose candidate c1 = 1 first fails the verification at index 3, and
\* returns 'verified' at depth 2 with the coefficients [1, 1], the solution
\* of the system with the rows [a(2), a(1)] -> a(3) and [a(3), a(2)] -> a(4).
C13_FibonacciDepthTwo ==
    (input.terms = Fibonacci /\ rec.status # "notrun") =>
        /\ With(SolveSquare(RecMatrix(Fibonacci, 1), RecRhs(Fibonacci, 1)),
                LAMBDA c : Len(c) = 1 /\ QNearInteger(c[1]) /\ QRound(c[1]) = 1)
        /\ RecPredict(Fibonacci, <<1>>, 2) = Fibonacci[2]
        /\ RecPredict(Fibonacci, <<1>>, 3) # Fibonacci[3]
        /\ RecMatrix(Fibonacci, 2) =
              <<<<Fibonacci[2], Fibonacci[1]>>, <<Fibonacci[3], Fibonacci[2]>>>>
        /\ RecRhs(Fibonacci, 2) = <<Fibonacci[3], Fibonacci[4]>>
        /\ rec.status = "verified"
        /\ rec.degree = 2
        /\ rec.coeffs = <<1, 1>>
        /\ rec.fits = 2

\* the tester has returned for the ten Fibonacci numbers
C13_Witness ==
    /\ input.terms = Fibonacci
    /\ rec.status = "verified"
    /\ rec.degree = 2


\* C12: on the first ten primes every tester returns 'failed': no integer
\* polynomial of a degree the fit allows, no integer recurrence of depth
\* 1..5 (depth 5 is solved on the whole sequence: 2 * 5 terms), no rational
\* and no exponential candidate is reported as verified.
C12_PrimesFailEverywhere ==
    input.terms = Primes =>
        /\ \A t \in Testers :
              results[t] # NotRun => results[t].status = "failed"
        /\ rec.status # "notrun" => rec.fits = Len(Primes) \div 2

\* all four testers have returned for the ten primes
C12_Witness ==
    /\ input.terms = Primes
    /\ \A t \in Testers : results[t] # NotRun
    /\ rat.status = "failed"

====
